---- MODULE Spec2Model ----
(***************************************************************************)
(* Extraction-and-transformation engine of nestjs-xpath-parser:            *)
(* ScraperHtmlService.evaluateWebsite (selector resolution, record         *)
(* assembly, value pipeline), HtmlBuilder (node facade) and the custom     *)
(* pipe registry.                                                          *)
(*                                                                         *)
(* A JavaScript string is a sequence of characters; a character is a       *)
(* one-character TLA+ string, except the no-break space U+00A0, written    *)
(* NBSP.  The empty sequence is the empty string (falsy in JavaScript).    *)
(***************************************************************************)
EXTENDS Integers, Sequences, FiniteSets, TLC

\* ------------------------------------------------------------------------
\* Bounds of the model
\* ------------------------------------------------------------------------

\* longest descriptor list handed to evaluateWebsite
MaxFields == 2

\* ------------------------------------------------------------------------
\* JavaScript string primitives
\* ------------------------------------------------------------------------

NBSP == "nbsp"

\* characters matched by \s and stripped by String.prototype.trim
WhiteSpace == {" ", "\n", "\t", NBSP}

IsSpace(c) == c \in WhiteSpace

Lowers == <<"a","b","c","d","e","f","g","h","i","j","k","l","m",
            "n","o","p","q","r","s","t","u","v","w","x","y","z">>

Uppers == <<"A","B","C","D","E","F","G","H","I","J","K","L","M",
            "N","O","P","Q","R","S","T","U","V","W","X","Y","Z">>

IsLower(c) == \E i \in 1..26 : Lowers[i] = c

IsUpper(c) == \E i \in 1..26 : Uppers[i] = c

IsLetter(c) == IsLower(c) \/ IsUpper(c)

LowerChar(c) == IF IsUpper(c) THEN Lowers[CHOOSE i \in 1..26 : Uppers[i] = c] ELSE c

UpperChar(c) == IF IsLower(c) THEN Uppers[CHOOSE i \in 1..26 : Lowers[i] = c] ELSE c

\* String.prototype.toLowerCase
ToLowerCase(s) == [i \in 1..Len(s) |-> LowerChar(s[i])]

\* String.prototype.toUpperCase
ToUpperCase(s) == [i \in 1..Len(s) |-> UpperChar(s[i])]

RECURSIVE TrimStart(_)
TrimStart(s) == IF s # <<>> /\ IsSpace(Head(s)) THEN TrimStart(Tail(s)) ELSE s

RECURSIVE TrimEnd(_)
TrimEnd(s) ==
  IF s # <<>> /\ IsSpace(s[Len(s)]) THEN TrimEnd(SubSeq(s, 1, Len(s) - 1)) ELSE s

\* String.prototype.trim
Trim(s) == TrimEnd(TrimStart(s))

\* s.replace(/\s+/, ' '): only the first run of white space becomes one space
RECURSIVE CollapseFirstRun(_)
CollapseFirstRun(s) ==
  IF s = <<>> THEN <<>>
  ELSE IF IsSpace(Head(s))
       THEN <<" ">> \o TrimStart(s)
       ELSE <<Head(s)>> \o CollapseFirstRun(Tail(s))

\* s.replace(/\s+/g, ' '): every maximal run of white space becomes one space
RECURSIVE CollapseSpaces(_)
CollapseSpaces(s) ==
  IF s = <<>> THEN <<>>
  ELSE IF IsSpace(Head(s))
       THEN <<" ">> \o CollapseSpaces(TrimStart(s))
       ELSE <<Head(s)>> \o CollapseSpaces(Tail(s))

\* Array.prototype.join on an array of strings
RECURSIVE Join(_, _)
Join(vals, sep) ==
  IF vals = <<>> THEN <<>>
  ELSE IF Len(vals) = 1 THEN vals[1]
       ELSE vals[1] \o sep \o Join(Tail(vals), sep)

\* ------------------------------------------------------------------------
\* decodeHtml (package decode-html): text.replace(/&([a-z]+);/ig, ...) with
\* the entity table amp, apos, lt, gt, quot, nbsp; unknown names are kept.
\* ------------------------------------------------------------------------

EntityOf(name) ==
  CASE name = <<"a","m","p">>     -> <<"&">>
    [] name = <<"a","p","o","s">> -> <<"'">>
    [] name = <<"l","t">>         -> <<"<">>
    [] name = <<"g","t">>         -> <<">">>
    [] name = <<"q","u","o","t">> -> <<"\"">>
    [] name = <<"n","b","s","p">> -> <<NBSP>>
    [] OTHER                      -> <<>>

\* length of the run of letters of s starting at position i
RECURSIVE LetterRun(_, _)
LetterRun(s, i) ==
  IF i <= Len(s) /\ IsLetter(s[i]) THEN 1 + LetterRun(s, i + 1) ELSE 0

RECURSIVE DecodeFrom(_, _)
DecodeFrom(s, i) ==
  IF i > Len(s) THEN <<>>
  ELSE LET IsEntity(n) ==
             s[i] = "&" /\ n > 0 /\ i + n + 1 <= Len(s) /\ s[i + n + 1] = ";"
           Decoded(n, hit) ==
             (IF hit # <<>> THEN hit ELSE SubSeq(s, i, i + n + 1))
               \o DecodeFrom(s, i + n + 2)
           Name(n) == ToLowerCase(SubSeq(s, i + 1, i + n))
           At(n) == IF IsEntity(n)
                    THEN Decoded(n, EntityOf(Name(n)))
                    ELSE <<s[i]>> \o DecodeFrom(s, i + 1)
       IN At(LetterRun(s, i + 1))

DecodeHtml(s) == DecodeFrom(s, 1)

\* ------------------------------------------------------------------------
\* Regular expressions: new RegExp(source, flags) and String.prototype.replace.
\* A source is given in parsed form: valid = FALSE is a source the RegExp
\* constructor rejects with a SyntaxError; anchorStart/anchorEnd are ^ and $;
\* an atom is a character set (neg = TRUE for a negated class) taken once or,
\* with star = TRUE, zero or more times (greedy, with backtracking).
\* Replacement strings are literal (no $n references).
\* ------------------------------------------------------------------------

Lit(c) == [cs |-> {c}, neg |-> FALSE, star |-> FALSE]

Canon(c) == UpperChar(c)

AtomMatches(a, c, ignoreCase) ==
  LET inSet == IF ignoreCase THEN \E x \in a.cs : Canon(x) = Canon(c) ELSE c \in a.cs
  IN IF a.neg THEN ~inSet ELSE inSet

RECURSIVE RunLen(_, _, _, _)
RunLen(a, s, i, ignoreCase) ==
  IF i <= Len(s) /\ AtomMatches(a, s[i], ignoreCase)
  THEN 1 + RunLen(a, s, i + 1, ignoreCase) ELSE 0

RECURSIVE MatchAtoms(_, _, _, _, _)
RECURSIVE TryStar(_, _, _, _, _, _)

\* position after the match of atoms k.. of re at position i of s; 0 = no match
MatchAtoms(re, k, s, i, ignoreCase) ==
  IF k > Len(re.atoms)
  THEN IF re.anchorEnd /\ i # Len(s) + 1 THEN 0 ELSE i
  ELSE LET a == re.atoms[k]
       IN IF a.star
          THEN TryStar(re, k, s, i, RunLen(a, s, i, ignoreCase), ignoreCase)
          ELSE IF i <= Len(s) /\ AtomMatches(a, s[i], ignoreCase)
               THEN MatchAtoms(re, k + 1, s, i + 1, ignoreCase)
               ELSE 0

TryStar(re, k, s, i, j, ignoreCase) ==
  LET Longest(r) == IF r # 0 THEN r
                    ELSE IF j = 0 THEN 0
                    ELSE TryStar(re, k, s, i, j - 1, ignoreCase)
  IN Longest(MatchAtoms(re, k + 1, s, i + j, ignoreCase))

MatchAt(re, s, i, ignoreCase) ==
  IF re.anchorStart /\ i # 1 THEN 0 ELSE MatchAtoms(re, 1, s, i, ignoreCase)

CharAt(s, i) == IF i <= Len(s) THEN <<s[i]>> ELSE <<>>

\* s.replace(re, to) from position i on; isGlobal = FALSE stops after one match
RECURSIVE ReplaceFrom(_, _, _, _, _, _)
ReplaceFrom(re, s, to, i, isGlobal, ignoreCase) ==
  IF i > Len(s) + 1 THEN <<>>
  ELSE LET Matched(e) ==
             IF e = 0
             THEN CharAt(s, i) \o ReplaceFrom(re, s, to, i + 1, isGlobal, ignoreCase)
             ELSE IF ~isGlobal
                  THEN to \o SubSeq(s, e, Len(s))
                  ELSE IF e = i
                       THEN to \o CharAt(s, i)
                               \o ReplaceFrom(re, s, to, i + 1, isGlobal, ignoreCase)
                       ELSE to \o ReplaceFrom(re, s, to, e, isGlobal, ignoreCase)
       IN Matched(MatchAt(re, s, i, ignoreCase))

HasFlag(flags, f) == \E i \in 1..Len(flags) : flags[i] = f

\* s.replace(new RegExp(source, flags), to); the RegExp must be valid
RegexReplace(re, flags, s, to) ==
  ReplaceFrom(re, s, to, 1, HasFlag(flags, "g"), HasFlag(flags, "i"))

\* ------------------------------------------------------------------------
\* HtmlBuilder (node facade).  A parsed document is the sequence of its nodes
\* in document order; a node is referred to by its index, 0 is "no node".
\*   parent : index of the parent node, 0 for a child of the document
\*   tag    : what a node test selects ("#text" for a text node, "@x" for an
\*            attribute)
\*   kind   : "element", "text" or "attr"
\*   text   : text()/value() of libxmljs, textContent of the DOM (raw)
\*   outer  : toString() of libxmljs; inner : innerHTML of the DOM
\* An XPath expression is [kind, tag]: ".//tag" (kind "rel", relative to the
\* context node), "//tag" (kind "abs", from the document root whatever the
\* context node) or a malformed expression (kind "bad"), which the engine
\* rejects by throwing.
\* ------------------------------------------------------------------------

RECURSIVE IsDescendant(_, _, _)
IsDescendant(nodes, n, anc) ==
  IF nodes[n].parent = 0 THEN FALSE
  ELSE nodes[n].parent = anc \/ IsDescendant(nodes, nodes[n].parent, anc)

RECURSIVE SelectFrom(_, _, _, _)
SelectFrom(nodes, xp, ctx, i) ==
  IF i > Len(nodes) THEN <<>>
  ELSE LET inScope == xp.kind = "abs" \/ ctx = 0 \/ IsDescendant(nodes, i, ctx)
           rest    == SelectFrom(nodes, xp, ctx, i + 1)
       IN IF nodes[i].tag = xp.tag /\ inScope THEN <<i>> \o rest ELSE rest

\* the engine's evaluation of an expression: it throws on a malformed one
EngineFind(dom, xp, ctx) ==
  IF xp.kind = "bad"
  THEN [threw |-> TRUE, nodes |-> <<>>]
  ELSE [threw |-> FALSE, nodes |-> SelectFrom(dom.nodes, xp, ctx, 1)]

\* HtmlBuilder.loadHtml
LoadHtml(plainText, useJSDom) ==
  [engine |-> IF useJSDom THEN "jsdom" ELSE "libxmljs", nodes |-> plainText]

\* HtmlBuilder.findXpath
FindXpath(dom, expression) == EngineFind(dom, expression, 0)

\* HtmlBuilder.findXpathInContext
BuilderFindXpathInContext(dom, expression, contextNode) ==
  EngineFind(dom, expression, contextNode)

\* HtmlBuilder.normalizeWhitespace
NormalizeWhitespace(text) == CollapseSpaces(Trim(text))

\* HtmlBuilder.getValueXML / HtmlBuilder.value
GetValueXML(dom, node) ==
  IF node = 0 THEN <<>>
  ELSE IF dom.engine = "jsdom" THEN Trim(dom.nodes[node].text)
  ELSE IF dom.nodes[node].kind = "attr" THEN Trim(dom.nodes[node].text)
  ELSE NormalizeWhitespace(dom.nodes[node].text)

\* HtmlBuilder.htmlString
HtmlString(dom, node) ==
  IF node = 0 THEN <<>>
  ELSE IF dom.engine = "jsdom" THEN dom.nodes[node].inner
  ELSE dom.nodes[node].outer

\* ------------------------------------------------------------------------
\* Custom pipes.  A pipe config is a plain object
\*   [type, hasRules, rules, hasBaseUrl, baseUrl]
\* (hasRules / hasBaseUrl tell whether the property is present); a regex rule
\* is [pattern, replacement, flags].  An exec outcome is [threw, type, out]:
\* type is the typeof of the returned value, "string" (out is the string) or
\* "number" (out is the integer).  A baseUrl that is undefined is the empty
\* string.
\* ------------------------------------------------------------------------

Returned(v) == [threw |-> FALSE, type |-> "string", out |-> v]

ReturnedNumber(n) == [threw |-> FALSE, type |-> "number", out |-> n]

Thrown == [threw |-> TRUE, type |-> "string", out |-> <<>>]

\* String.prototype.startsWith / endsWith
StartsWith(s, prefix) ==
  Len(prefix) <= Len(s) /\ SubSeq(s, 1, Len(prefix)) = prefix

EndsWith(s, suffix) ==
  Len(suffix) <= Len(s) /\ SubSeq(s, Len(s) - Len(suffix) + 1, Len(s)) = suffix

Digits == <<"0", "1", "2", "3", "4", "5", "6", "7", "8", "9">>

IsDigit(c) == \E d \in 1..Len(Digits) : Digits[d] = c

DigitValue(c) == (CHOOSE d \in 1..Len(Digits) : Digits[d] = c) - 1

RECURSIVE Pow10(_)
Pow10(n) == IF n = 0 THEN 1 ELSE 10 * Pow10(n - 1)

\* String(n) for an integer n (below 1e21, where the decimal form is used)
RECURSIVE DigitsOf(_)
DigitsOf(n) ==
  IF n < 10 THEN <<Digits[n + 1]>> ELSE Append(DigitsOf(n \div 10), Digits[(n % 10) + 1])

NumberToString(n) == IF n < 0 THEN <<"-">> \o DigitsOf(0 - n) ELSE DigitsOf(n)

\* typeof transformed === 'string' ? transformed : String(transformed)
JsString(r) == IF r.type = "string" THEN r.out ELSE NumberToString(r.out)

\* the run of decimal digits of s from position i on
RECURSIVE DigitRun(_, _)
DigitRun(s, i) ==
  IF i <= Len(s) /\ IsDigit(s[i]) THEN 1 + DigitRun(s, i + 1) ELSE 0

\* the value of the digit string s, read in base ten
RECURSIVE DecimalOf(_)
DecimalOf(s) ==
  IF s = <<>> THEN 0
  ELSE 10 * DecimalOf(SubSeq(s, 1, Len(s) - 1)) + DigitValue(s[Len(s)])

\* parseFloat(s) on strings without an exponent part: leading white space,
\* a sign, digits, a point, digits.  The result is sign * m / 10^f; nan when
\* no digit is read.
ParseFloat(s) ==
  LET Parsed(t, sign) ==
        LET Fraction(ip, fp) ==
              [nan |-> ip = 0 /\ fp = 0,
               m   |-> sign * DecimalOf(SubSeq(t, 1, ip) \o SubSeq(t, ip + 2, ip + 1 + fp)),
               f   |-> fp]
            Integral(ip) ==
              IF ip < Len(t) /\ t[ip + 1] = "."
              THEN Fraction(ip, DigitRun(t, ip + 2))
              ELSE [nan |-> ip = 0, m |-> sign * DecimalOf(SubSeq(t, 1, ip)), f |-> 0]
        IN Integral(DigitRun(t, 1))
      Signed(t) ==
        IF t # <<>> /\ t[1] = "-" THEN Parsed(Tail(t), 0 - 1)
        ELSE IF t # <<>> /\ t[1] = "+" THEN Parsed(Tail(t), 1)
        ELSE Parsed(t, 1)
  IN Signed(TrimStart(s))

\* NumberNormalizePipe.exec: Math.round(parseFloat(..) * multiplier) || 0
NumberNormalizePipeExec(pipe, value) ==
  LET normalized ==
        RegexReplace([valid |-> TRUE, anchorStart |-> FALSE, anchorEnd |-> FALSE,
                      atoms |-> <<[cs |-> {","}, neg |-> FALSE, star |-> FALSE]>>],
                     <<"g">>, ToLowerCase(value), <<".">>)
      multiplier == IF EndsWith(normalized, <<"k">>) THEN 1000
                    ELSE IF EndsWith(normalized, <<"m">>) THEN 1000000
                    ELSE IF EndsWith(normalized, <<"b">>) THEN 1000000000
                    ELSE 1
      Rounded(x) ==
        IF x.nan THEN 0
        ELSE (2 * x.m * multiplier + Pow10(x.f)) \div (2 * Pow10(x.f))
  IN ReturnedNumber(Rounded(ParseFloat(normalized)))

\* new URL(s) for "http://host/path" and "https://host/path"; anything else
\* is rejected with a TypeError.  An empty path is "/".
ParseUrl(s) ==
  LET scheme == IF StartsWith(s, <<"h", "t", "t", "p", ":", "/", "/">>)
                THEN <<"h", "t", "t", "p", ":">>
                ELSE IF StartsWith(s, <<"h", "t", "t", "p", "s", ":", "/", "/">>)
                THEN <<"h", "t", "t", "p", "s", ":">>
                ELSE <<>>
      rest == SubSeq(s, Len(scheme) + 3, Len(s))
      slashes == {i \in 1..Len(rest) : rest[i] = "/"}
      hostLen == IF slashes = {} THEN Len(rest)
                 ELSE (CHOOSE i \in slashes : \A j \in slashes : i <= j) - 1
  IN [valid    |-> scheme # <<>> /\ hostLen > 0,
      protocol |-> scheme,
      host     |-> SubSeq(rest, 1, hostLen),
      pathname |-> IF hostLen = Len(rest) THEN <<"/">>
                   ELSE SubSeq(rest, hostLen + 1, Len(rest))]

\* the percent-encoding of a path by the URL parser (a space becomes %20)
RECURSIVE EncodePath(_)
EncodePath(s) ==
  IF s = <<>> THEN <<>>
  ELSE (IF Head(s) = " " THEN <<"%", "2", "0">> ELSE <<Head(s)>>) \o EncodePath(Tail(s))

\* the directory of a path: up to and including its last "/"
DirOf(pathname) ==
  SubSeq(pathname, 1,
         CHOOSE i \in 1..Len(pathname) :
           pathname[i] = "/" /\ \A j \in (i + 1)..Len(pathname) : pathname[j] # "/")

\* new URL(value, base).toString() for a relative value without dot segments,
\* query or fragment; threw when the base does not parse
ResolveUrl(value, base) ==
  LET Against(b) ==
        IF ~b.valid THEN Thrown
        ELSE IF StartsWith(value, <<"/", "/">>)
        THEN Returned(b.protocol \o EncodePath(value))
        ELSE IF StartsWith(value, <<"/">>)
        THEN Returned(b.protocol \o <<"/", "/">> \o b.host \o EncodePath(value))
        ELSE Returned(b.protocol \o <<"/", "/">> \o b.host
                        \o DirOf(b.pathname) \o EncodePath(value))
  IN Against(ParseUrl(base))

IsAbsoluteHttp(s) ==
  \/ StartsWith(s, <<"h", "t", "t", "p", ":", "/", "/">>)
  \/ StartsWith(s, <<"h", "t", "t", "p", "s", ":", "/", "/">>)

\* ParseAsURLPipe.exec
ParseAsURLPipeExec(pipe, value) ==
  IF value = <<>> THEN Returned(<<>>)
  ELSE IF IsAbsoluteHttp(value) THEN Returned(value)
  ELSE IF pipe.baseUrl = <<>> THEN Returned(value)
  ELSE LET Caught(r) == IF r.threw THEN Returned(value) ELSE r
       IN Caught(ResolveUrl(value, pipe.baseUrl))

\* UrlResolvePipe.exec
UrlResolvePipeExec(pipe, value) ==
  LET Resolved(trimmed) ==
        IF IsAbsoluteHttp(trimmed) THEN Returned(trimmed)
        ELSE IF StartsWith(trimmed, <<"/", "/">>)
        THEN Returned(<<"h", "t", "t", "p", "s", ":">> \o trimmed)
        ELSE IF StartsWith(trimmed, <<"/">>)
        THEN LET Origin(url) ==
                   IF ~url.valid THEN Thrown
                   ELSE Returned(url.protocol \o <<"/", "/">> \o url.host \o trimmed)
             IN Origin(ParseUrl(pipe.baseUrl))
        ELSE IF pipe.baseUrl = <<>> THEN Thrown
        ELSE Returned((IF EndsWith(pipe.baseUrl, <<"/">>)
                       THEN SubSeq(pipe.baseUrl, 1, Len(pipe.baseUrl) - 1)
                       ELSE pipe.baseUrl) \o <<"/">> \o trimmed)
  IN IF value = <<>> THEN Returned(<<>>) ELSE Resolved(Trim(value))

\* RegexPipe.exec: the loop over this.rules
RECURSIVE RegexRulesFrom(_, _, _)
RegexRulesFrom(rules, i, result) ==
  IF i > Len(rules) THEN Returned(result)
  ELSE LET rule  == rules[i]
           flags == IF rule.flags = <<>> THEN <<"g">> ELSE rule.flags
       IN IF ~rule.pattern.valid
          THEN Thrown
          ELSE RegexRulesFrom(rules, i + 1,
                 RegexReplace(rule.pattern, flags, result, rule.replacement))

\* RegexPipe.exec; iterating an absent rules property throws a TypeError
RegexPipeExec(pipe, value) ==
  IF value = <<>> THEN Returned(<<>>)
  ELSE IF ~pipe.hasRules THEN Thrown
  ELSE RegexRulesFrom(pipe.rules, 1, value)

\* ReversePipe.exec: value.split('').reverse().join('')
ReversePipeExec(pipe, value) ==
  Returned([i \in 1..Len(value) |-> value[Len(value) + 1 - i]])

\* customPipe.exec(result), by the class of the instance
PipeExec(pipe, value) ==
  CASE pipe.class = "RegexPipe"           -> RegexPipeExec(pipe, value)
    [] pipe.class = "ReversePipe"         -> ReversePipeExec(pipe, value)
    [] pipe.class = "NumberNormalizePipe" -> NumberNormalizePipeExec(pipe, value)
    [] pipe.class = "ParseAsURLPipe"      -> ParseAsURLPipeExec(pipe, value)
    [] pipe.class = "UrlResolvePipe"      -> UrlResolvePipeExec(pipe, value)

\* PIPE_REGISTRY as the module is loaded
InitialRegistry ==
  [t \in {"regex", "parse-as-url", "date-format", "num-normalize",
          "url-resolve", "extract-email"} |->
     CASE t = "regex"         -> "RegexPipe"
       [] t = "parse-as-url"  -> "ParseAsURLPipe"
       [] t = "date-format"   -> "DateFormatPipe"
       [] t = "num-normalize" -> "NumberNormalizePipe"
       [] t = "url-resolve"   -> "UrlResolvePipe"
       [] t = "extract-email" -> "ExtractEmailPipe"]

\* does the class declare a baseUrl property of its own
DeclaresBaseUrl(class) == class \in {"ParseAsURLPipe", "UrlResolvePipe"}

\* the loop over pipeConfigs ending at the first type the registry lacks
RECURSIVE InstantiateFromUntilUnknown(_, _, _, _)
InstantiateFromUntilUnknown(pipeConfigs, i, url, registry) ==
  IF i > Len(pipeConfigs) THEN <<>>
  ELSE LET config == pipeConfigs[i]
           Rest(rest) ==
             IF config.type = "" THEN rest
             ELSE LET class   == registry[config.type]
                      hasBase == config.hasBaseUrl \/ DeclaresBaseUrl(class)
                      pipe    == [class      |-> class,
                                  hasRules   |-> config.hasRules,
                                  rules      |-> config.rules,
                                  hasBaseUrl |-> hasBase,
                                  baseUrl    |-> IF url # <<>> /\ hasBase
                                                 THEN url ELSE config.baseUrl]
                  IN <<pipe>> \o rest
       IN IF config.type # "" /\ config.type \notin DOMAIN registry THEN <<>>
          ELSE Rest(InstantiateFromUntilUnknown(pipeConfigs, i + 1, url, registry))

\* the loop over pipeConfigs never assigning the url of the call
RECURSIVE InstantiateFromAsConfigured(_, _, _, _)
InstantiateFromAsConfigured(pipeConfigs, i, url, registry) ==
  IF i > Len(pipeConfigs) THEN <<>>
  ELSE LET config == pipeConfigs[i]
           Rest(rest) ==
             IF config.type = "" THEN rest
             ELSE IF config.type \notin DOMAIN registry THEN rest
             ELSE LET class == registry[config.type]
                      pipe  == [class      |-> class,
                                hasRules   |-> config.hasRules,
                                rules      |-> config.rules,
                                hasBaseUrl |-> config.hasBaseUrl \/ DeclaresBaseUrl(class),
                                baseUrl    |-> config.baseUrl]
                  IN <<pipe>> \o rest
       IN Rest(InstantiateFromAsConfigured(pipeConfigs, i + 1, url, registry))

\* instantiatePipes: the loop over pipeConfigs from index i on
RECURSIVE InstantiateFrom(_, _, _, _)
InstantiateFrom(pipeConfigs, i, url, registry) ==
  IF i > Len(pipeConfigs) THEN <<>>
  ELSE LET config == pipeConfigs[i]
           rest   == InstantiateFrom(pipeConfigs, i + 1, url, registry)
       IN IF config.type = "" THEN rest
          ELSE IF config.type \notin DOMAIN registry THEN rest
          ELSE LET class   == registry[config.type]
                   hasBase == config.hasBaseUrl \/ DeclaresBaseUrl(class)
                   pipe    == [class      |-> class,
                               hasRules   |-> config.hasRules,
                               rules      |-> config.rules,
                               hasBaseUrl |-> hasBase,
                               baseUrl    |-> IF url # <<>> /\ hasBase
                                              THEN url ELSE config.baseUrl]
               IN <<pipe>> \o rest

InstantiatePipes(pipeConfigs, url, registry) ==
  InstantiateFrom(pipeConfigs, 1, url, registry)

\* ------------------------------------------------------------------------
\* ScraperHtmlService.applyPipes.  A pipes object is
\*   [defined, trim, toLowerCase, toUpperCase, decode, replace, merge, custom]
\* (defined = FALSE: the descriptor has no pipes); merge is "none", "true",
\* "with space" or "with comma".  The outcome is [err, val]; err = "" when
\* the call returned.
\* ------------------------------------------------------------------------

\* the loop over pipes.replace; new RegExp(from, 'g') throws on a bad source
RECURSIVE ReplaceLoop(_, _, _)
ReplaceLoop(replace, i, result) ==
  IF i > Len(replace) THEN [err |-> "", val |-> result]
  ELSE IF ~replace[i].from.valid
       THEN [err |-> "SyntaxError", val |-> result]
       ELSE ReplaceLoop(replace, i + 1,
              RegexReplace(replace[i].from, <<"g">>, result, replace[i].to))

\* the loop over customPipes giving up at the first exec that throws
RECURSIVE CustomLoopAbort(_, _, _)
CustomLoopAbort(customPipes, i, result) ==
  IF i > Len(customPipes) THEN result
  ELSE LET After(r) ==
             IF r.threw THEN result
             ELSE CustomLoopAbort(customPipes, i + 1, JsString(r))
       IN After(PipeExec(customPipes[i], result))

\* the loop over customPipes keeping result when exec returns a non-string
RECURSIVE CustomLoopStringsOnly(_, _, _)
CustomLoopStringsOnly(customPipes, i, result) ==
  IF i > Len(customPipes) THEN result
  ELSE LET After(r) ==
             CustomLoopStringsOnly(customPipes, i + 1,
               IF r.threw \/ r.type # "string" THEN result ELSE r.out)
       IN After(PipeExec(customPipes[i], result))

\* the loop over customPipes: a throwing exec leaves result as it was
RECURSIVE CustomLoop(_, _, _)
CustomLoop(customPipes, i, result) ==
  IF i > Len(customPipes) THEN result
  ELSE LET After(r) ==
             CustomLoop(customPipes, i + 1, IF r.threw THEN result ELSE JsString(r))
       IN After(PipeExec(customPipes[i], result))

\* applyPipes without the final white-space normalization
ApplyPipesUnnormalized(value, pipes, url, registry) ==
  IF ~pipes.defined \/ value = <<>> THEN [err |-> "", val |-> value]
  ELSE LET Decoded(v) == IF pipes.decode THEN DecodeHtml(v) ELSE v
           Lowered(v) == IF pipes.toLowerCase THEN ToLowerCase(v) ELSE v
           Uppered(v) == IF pipes.toUpperCase THEN ToUpperCase(v) ELSE v
           Trimmed(v) == IF pipes.trim THEN Trim(v) ELSE v
           Custom(v)  == CustomLoop(InstantiatePipes(pipes.custom, url, registry),
                                    1, v)
           Finish(replaced) ==
             IF replaced.err # "" THEN replaced
             ELSE [err |-> "", val |-> Custom(replaced.val)]
       IN Finish(ReplaceLoop(pipes.replace, 1,
                             Trimmed(Uppered(Lowered(Decoded(value))))))

\* applyPipes converting to upper case before it converts to lower case
ApplyPipesUpperFirst(value, pipes, url, registry) ==
  IF ~pipes.defined \/ value = <<>> THEN [err |-> "", val |-> value]
  ELSE LET Decoded(v) == IF pipes.decode THEN DecodeHtml(v) ELSE v
           Lowered(v) == IF pipes.toLowerCase THEN ToLowerCase(v) ELSE v
           Uppered(v) == IF pipes.toUpperCase THEN ToUpperCase(v) ELSE v
           Trimmed(v) == IF pipes.trim THEN Trim(v) ELSE v
           Custom(v)  == CustomLoop(InstantiatePipes(pipes.custom, url, registry),
                                    1, v)
           Finish(replaced) ==
             IF replaced.err # "" THEN replaced
             ELSE [err |-> "", val |-> Trim(CollapseSpaces(Custom(replaced.val)))]
       IN Finish(ReplaceLoop(pipes.replace, 1,
                             Trimmed(Lowered(Uppered(Decoded(value))))))

\* applyPipes trimming before it decodes and converts the case
ApplyPipesTrimFirst(value, pipes, url, registry) ==
  IF ~pipes.defined \/ value = <<>> THEN [err |-> "", val |-> value]
  ELSE LET Trimmed(v) == IF pipes.trim THEN Trim(v) ELSE v
           Decoded(v) == IF pipes.decode THEN DecodeHtml(v) ELSE v
           Lowered(v) == IF pipes.toLowerCase THEN ToLowerCase(v) ELSE v
           Uppered(v) == IF pipes.toUpperCase THEN ToUpperCase(v) ELSE v
           Custom(v)  == CustomLoop(InstantiatePipes(pipes.custom, url, registry),
                                    1, v)
           Finish(replaced) ==
             IF replaced.err # "" THEN replaced
             ELSE [err |-> "", val |-> Trim(CollapseSpaces(Custom(replaced.val)))]
       IN Finish(ReplaceLoop(pipes.replace, 1,
                             Uppered(Lowered(Decoded(Trimmed(value))))))

ApplyPipes(value, pipes, url, registry) ==
  IF ~pipes.defined \/ value = <<>> THEN [err |-> "", val |-> value]
  ELSE LET Decoded(v) == IF pipes.decode THEN DecodeHtml(v) ELSE v
           Lowered(v) == IF pipes.toLowerCase THEN ToLowerCase(v) ELSE v
           Uppered(v) == IF pipes.toUpperCase THEN ToUpperCase(v) ELSE v
           Trimmed(v) == IF pipes.trim THEN Trim(v) ELSE v
           Custom(v)  == CustomLoop(InstantiatePipes(pipes.custom, url, registry),
                                    1, v)
           Finish(replaced) ==
             IF replaced.err # "" THEN replaced
             ELSE [err |-> "", val |-> Trim(CollapseSpaces(Custom(replaced.val)))]
       IN Finish(ReplaceLoop(pipes.replace, 1,
                             Trimmed(Uppered(Lowered(Decoded(value))))))

\* ------------------------------------------------------------------------
\* ScraperHtmlService: selector resolution and record assembly.
\* A descriptor (PatternField) is
\*   [key, patternType, returnType, patterns, meta, pipes]
\* with meta = [multiple, multiline, alterPattern, isContainer]; multiple is
\* "false", "true" or "with comma".  A field value is a string or an array of
\* strings; a record (one element of results) is a function from keys to
\* field values.  queried lists the engine queries in the order they are
\* made, as [xpath, ctx] (ctx = 0: the whole document).
\* ------------------------------------------------------------------------

StrVal(s) == [kind |-> "string", s |-> s, a |-> <<>>]

ArrVal(a) == [kind |-> "array", s |-> <<>>, a |-> a]

UnsupportedPatternType == "Only xpath pattern type is supported in scraper-html mode"

\* ScraperHtmlService.findXpathInContext: an engine error becomes no match
FindXpathInContext(xpath, context, dom) ==
  IF context = 0 THEN [threw |-> FALSE, nodes |-> <<>>]
  ELSE LET Caught(r) == IF r.threw THEN [threw |-> FALSE, nodes |-> <<>>] ELSE r
       IN Caught(BuilderFindXpathInContext(dom, xpath, context))

\* findByPattern: the loop over allPatterns from index i on
RECURSIVE FindLoop(_, _, _, _)
FindLoop(allPatterns, i, dom, context) ==
  IF i > Len(allPatterns) THEN [nodes |-> <<>>, queried |-> <<>>]
  ELSE LET xpath == allPatterns[i]
           entry == [xpath |-> xpath, ctx |-> context]
           Later(rest) == [nodes |-> rest.nodes, queried |-> <<entry>> \o rest.queried]
           Tried(q) == IF ~q.threw /\ Len(q.nodes) > 0
                       THEN [nodes |-> q.nodes, queried |-> <<entry>>]
                       ELSE Later(FindLoop(allPatterns, i + 1, dom, context))
       IN Tried(IF context # 0
                THEN FindXpathInContext(xpath, context, dom)
                ELSE FindXpath(dom, xpath))

\* findByPattern ignoring meta.alterPattern
FindByPatternNoAlter(pattern, dom, context) ==
  IF pattern.patternType # "xpath"
  THEN [err |-> UnsupportedPatternType, nodes |-> <<>>, queried |-> <<>>]
  ELSE LET Found(r) == [err |-> "", nodes |-> r.nodes, queried |-> r.queried]
       IN Found(FindLoop(pattern.patterns, 1, dom, context))

\* findByPattern trying the alternative patterns before the primary ones
FindByPatternAlterFirst(pattern, dom, context) ==
  IF pattern.patternType # "xpath"
  THEN [err |-> UnsupportedPatternType, nodes |-> <<>>, queried |-> <<>>]
  ELSE LET Found(r) == [err |-> "", nodes |-> r.nodes, queried |-> r.queried]
       IN Found(FindLoop(pattern.meta.alterPattern \o pattern.patterns, 1, dom,
                         context))

\* findByPattern letting the engine's error on a malformed expression escape
FindByPatternPropagating(pattern, dom, context) ==
  IF pattern.patternType # "xpath"
  THEN [err |-> UnsupportedPatternType, nodes |-> <<>>, queried |-> <<>>]
  ELSE LET Threw(r) == \E i \in 1..Len(r.queried) : r.queried[i].xpath.kind = "bad"
           Found(r) == [err |-> IF Threw(r) THEN "XPathError" ELSE "",
                        nodes |-> IF Threw(r) THEN <<>> ELSE r.nodes,
                        queried |-> r.queried]
       IN Found(FindLoop(pattern.patterns \o pattern.meta.alterPattern, 1, dom,
                         context))

FindByPattern(pattern, dom, context) ==
  IF pattern.patternType # "xpath"
  THEN [err |-> UnsupportedPatternType, nodes |-> <<>>, queried |-> <<>>]
  ELSE LET allPatterns == pattern.patterns \o pattern.meta.alterPattern
           Found(r) == [err |-> "", nodes |-> r.nodes, queried |-> r.queried]
       IN Found(FindLoop(allPatterns, 1, dom, context))

GetNodeValue(node, returnType, dom) ==
  IF returnType = "rawHTML" THEN HtmlString(dom, node) ELSE GetValueXML(dom, node)

\* the map over nodes leaving out the values that come out empty
RECURSIVE CleanValuesNonEmpty(_, _, _, _, _, _)
CleanValuesNonEmpty(nodes, i, pattern, dom, url, registry) ==
  IF i > Len(nodes) THEN [err |-> "", vals |-> <<>>]
  ELSE LET Mapped(r, rest) ==
             [err |-> rest.err,
              vals |-> (IF r.val = <<>> THEN <<>> ELSE <<r.val>>) \o rest.vals]
           Cleaned(r) ==
             IF r.err # "" THEN [err |-> r.err, vals |-> <<>>]
             ELSE Mapped(r, CleanValuesNonEmpty(nodes, i + 1, pattern, dom, url,
                                                registry))
       IN Cleaned(ApplyPipes(GetNodeValue(nodes[i], pattern.returnType, dom),
                             pattern.pipes, url, registry))

\* nodes.map(node => applyPipes(getNodeValue(node))) from index i on; a throw
\* of applyPipes ends the map
RECURSIVE CleanValues(_, _, _, _, _, _)
CleanValues(nodes, i, pattern, dom, url, registry) ==
  IF i > Len(nodes) THEN [err |-> "", vals |-> <<>>]
  ELSE LET Mapped(r, rest) == [err |-> rest.err, vals |-> <<r.val>> \o rest.vals]
           Cleaned(r) ==
             IF r.err # "" THEN [err |-> r.err, vals |-> <<>>]
             ELSE Mapped(r, CleanValues(nodes, i + 1, pattern, dom, url, registry))
       IN Cleaned(ApplyPipes(GetNodeValue(nodes[i], pattern.returnType, dom),
                             pattern.pipes, url, registry))

\* extractMultipleValues cleaning every value before it joins them
ExtractMultipleValuesPipeFirst(nodes, pattern, dom, url, registry) ==
  LET Joined(c) ==
        IF c.err # "" THEN [err |-> c.err, val |-> StrVal(<<>>)]
        ELSE IF pattern.pipes.defined /\ pattern.pipes.merge = "with comma"
             THEN [err |-> "", val |-> StrVal(Join(c.vals, <<",", " ">>))]
        ELSE IF pattern.pipes.defined /\ pattern.pipes.merge # "none"
             THEN [err |-> "", val |-> StrVal(Join(c.vals, <<" ">>))]
        ELSE IF pattern.meta.multiple = "with comma"
             THEN [err |-> "", val |-> StrVal(Join(c.vals, <<",", " ">>))]
        ELSE IF pattern.meta.multiline
             THEN [err |-> "", val |-> StrVal(Join(c.vals, <<" ">>))]
        ELSE [err |-> "", val |-> ArrVal(c.vals)]
  IN Joined(CleanValues(nodes, 1, pattern, dom, url, registry))

ExtractMultipleValues(nodes, pattern, dom, url, registry) ==
  IF pattern.pipes.defined /\ pattern.pipes.merge # "none"
  THEN LET rawValues == [i \in 1..Len(nodes) |->
                           GetNodeValue(nodes[i], pattern.returnType, dom)]
           Merged(sep) == Join(rawValues, sep)
           Cleaned(r) == [err |-> r.err, val |-> StrVal(r.val)]
       IN Cleaned(ApplyPipes(Merged(IF pattern.pipes.merge = "with comma"
                                    THEN <<",", " ">> ELSE <<" ">>),
                             pattern.pipes, url, registry))
  ELSE LET Joined(c) ==
             IF c.err # "" THEN [err |-> c.err, val |-> StrVal(<<>>)]
             ELSE IF pattern.meta.multiple = "with comma"
                  THEN [err |-> "", val |-> StrVal(Join(c.vals, <<",", " ">>))]
             ELSE IF pattern.meta.multiline
                  THEN [err |-> "", val |-> StrVal(Join(c.vals, <<" ">>))]
             ELSE [err |-> "", val |-> ArrVal(c.vals)]
       IN Joined(CleanValues(nodes, 1, pattern, dom, url, registry))

\* extractFieldValue; isNull = TRUE is the null return
ExtractFieldValue(pattern, dom, context, url, registry) ==
  IF pattern.patternType # "xpath"
  THEN [err |-> UnsupportedPatternType, isNull |-> TRUE,
        val |-> StrVal(<<>>), queried |-> <<>>]
  ELSE LET Many(f, m) == [err |-> m.err, isNull |-> FALSE, val |-> m.val,
                           queried |-> f.queried]
           One(f, r) == [err |-> r.err, isNull |-> FALSE, val |-> StrVal(r.val),
                         queried |-> f.queried]
           Found(f) ==
             IF Len(f.nodes) = 0
             THEN [err |-> "", isNull |-> TRUE, val |-> StrVal(<<>>),
                   queried |-> f.queried]
             ELSE IF pattern.meta.multiple # "false"
             THEN Many(f, ExtractMultipleValues(f.nodes, pattern, dom, url, registry))
             ELSE One(f, ApplyPipes(GetNodeValue(f.nodes[1], pattern.returnType, dom),
                                    pattern.pipes, url, registry))
       IN Found(FindByPattern(pattern, dom, context))

EmptyItem == [k \in {} |-> StrVal(<<>>)]

\* item[key] = value
PutKey(item, key, value) ==
  [k \in DOMAIN item \cup {key} |-> IF k = key THEN value ELSE item[k]]

\* the loop "for (const pattern of fieldPatterns)" from index i on, filling item
RECURSIVE FieldLoop(_, _, _, _, _, _, _)
FieldLoop(fieldPatterns, i, dom, context, url, registry, acc) ==
  IF i > Len(fieldPatterns) THEN acc
  ELSE LET Assigned(r) ==
             IF r.err # ""
             THEN [err |-> r.err, item |-> acc.item,
                   queried |-> acc.queried \o r.queried]
             ELSE FieldLoop(fieldPatterns, i + 1, dom, context, url, registry,
                    [err |-> "",
                     item |-> IF r.isNull THEN acc.item
                              ELSE PutKey(acc.item, fieldPatterns[i].key, r.val),
                     queried |-> acc.queried \o r.queried])
       IN Assigned(ExtractFieldValue(fieldPatterns[i], dom, context, url, registry))

\* the container loop pushing every item, empty or not
RECURSIVE ContainerLoopKeepEmpty(_, _, _, _, _, _, _)
ContainerLoopKeepEmpty(containers, i, fieldPatterns, dom, url, registry, acc) ==
  IF i > Len(containers) THEN acc
  ELSE LET Pushed(r) ==
             IF r.err # ""
             THEN [err |-> r.err, results |-> acc.results,
                   queried |-> acc.queried \o r.queried]
             ELSE ContainerLoopKeepEmpty(containers, i + 1, fieldPatterns, dom, url,
                    registry,
                    [err |-> "", results |-> Append(acc.results, r.item),
                     queried |-> acc.queried \o r.queried])
       IN Pushed(FieldLoop(fieldPatterns, 1, dom, containers[i], url, registry,
                           [err |-> "", item |-> EmptyItem, queried |-> <<>>]))

\* the loop "for (const container of containers)" from index i on
RECURSIVE ContainerLoop(_, _, _, _, _, _, _)
ContainerLoop(containers, i, fieldPatterns, dom, url, registry, acc) ==
  IF i > Len(containers) THEN acc
  ELSE LET Pushed(r) ==
             IF r.err # ""
             THEN [err |-> r.err, results |-> acc.results,
                   queried |-> acc.queried \o r.queried]
             ELSE ContainerLoop(containers, i + 1, fieldPatterns, dom, url, registry,
                    [err |-> "",
                     results |-> IF DOMAIN r.item # {}
                                 THEN Append(acc.results, r.item)
                                 ELSE acc.results,
                     queried |-> acc.queried \o r.queried])
       IN Pushed(FieldLoop(fieldPatterns, 1, dom, containers[i], url, registry,
                           [err |-> "", item |-> EmptyItem, queried |-> <<>>]))

ExtractFromContainers(containerPattern, fieldPatterns, dom, url, registry) ==
  LET Each(c) ==
        IF c.err # ""
        THEN [err |-> c.err, results |-> <<>>, queried |-> c.queried]
        ELSE ContainerLoop(c.nodes, 1, fieldPatterns, dom, url, registry,
               [err |-> "", results |-> <<>>, queried |-> c.queried])
  IN Each(FindByPattern(containerPattern, dom, 0))

\* extractWithoutContainer returning the item even when it has no key
ExtractWithoutContainerKeepEmpty(patterns, dom, url, registry) ==
  LET Single(r) ==
        [err |-> r.err,
         results |-> IF r.err = "" THEN <<r.item>> ELSE <<>>,
         queried |-> r.queried]
  IN Single(FieldLoop(patterns, 1, dom, 0, url, registry,
                      [err |-> "", item |-> EmptyItem, queried |-> <<>>]))

ExtractWithoutContainer(patterns, dom, url, registry) ==
  LET Single(r) ==
        [err |-> r.err,
         results |-> IF r.err = "" /\ DOMAIN r.item # {} THEN <<r.item>> ELSE <<>>,
         queried |-> r.queried]
  IN Single(FieldLoop(patterns, 1, dom, 0, url, registry,
                      [err |-> "", item |-> EmptyItem, queried |-> <<>>]))

\* patterns.filter(p => !p.meta?.isContainer)
RECURSIVE FieldPatternsOf(_)
FieldPatternsOf(patterns) ==
  IF patterns = <<>> THEN <<>>
  ELSE IF Head(patterns).meta.isContainer THEN FieldPatternsOf(Tail(patterns))
       ELSE <<Head(patterns)>> \o FieldPatternsOf(Tail(patterns))

HasContainer(patterns) == \E i \in 1..Len(patterns) : patterns[i].meta.isContainer

\* patterns.find(p => p.meta?.isContainer)
ContainerPatternOf(patterns) ==
  patterns[CHOOSE i \in 1..Len(patterns) :
             /\ patterns[i].meta.isContainer
             /\ \A j \in 1..(i - 1) : ~patterns[j].meta.isContainer]

\* extractData taking the last descriptor marked isContainer
ExtractDataLastContainer(patterns, dom, url, registry) ==
  IF HasContainer(patterns)
  THEN ExtractFromContainers(
         patterns[CHOOSE i \in 1..Len(patterns) :
                    /\ patterns[i].meta.isContainer
                    /\ \A j \in (i + 1)..Len(patterns) : ~patterns[j].meta.isContainer],
         FieldPatternsOf(patterns), dom, url, registry)
  ELSE ExtractWithoutContainer(FieldPatternsOf(patterns), dom, url, registry)

ExtractData(patterns, dom, url, registry) ==
  IF HasContainer(patterns)
  THEN ExtractFromContainers(ContainerPatternOf(patterns),
                             FieldPatternsOf(patterns), dom, url, registry)
  ELSE ExtractWithoutContainer(FieldPatternsOf(patterns), dom, url, registry)

\* ------------------------------------------------------------------------
\* Inputs: documents, expressions, pipes objects and descriptors
\* ------------------------------------------------------------------------

\* <h1>Title</h1><p> &amp;nbsp;aB  c </p><a href=" /p  q "></a>
DocTitle ==
  << [parent |-> 0, tag |-> "h1", kind |-> "element",
      text  |-> <<"T", "i", "t", "l", "e">>,
      outer |-> <<"<", "h", "1", ">", "T", "i", "t", "l", "e", "<", "/", "h", "1", ">">>,
      inner |-> <<"T", "i", "t", "l", "e">>],
     [parent |-> 1, tag |-> "#text", kind |-> "text",
      text  |-> <<"T", "i", "t", "l", "e">>,
      outer |-> <<"T", "i", "t", "l", "e">>,
      inner |-> <<>>],
     [parent |-> 0, tag |-> "p", kind |-> "element",
      text  |-> <<" ", "&", "n", "b", "s", "p", ";", "a", "B", " ", " ", "c", " ">>,
      outer |-> <<"<", "p", ">", " ", "&", "a", "m", "p", ";", "n", "b", "s", "p", ";", "a", "B", " ", " ", "c", " ", "<", "/", "p", ">">>,
      inner |-> <<" ", "&", "a", "m", "p", ";", "n", "b", "s", "p", ";", "a", "B", " ", " ", "c", " ">>],
     [parent |-> 3, tag |-> "#text", kind |-> "text",
      text  |-> <<" ", "&", "n", "b", "s", "p", ";", "a", "B", " ", " ", "c", " ">>,
      outer |-> <<" ", "&", "a", "m", "p", ";", "n", "b", "s", "p", ";", "a", "B", " ", " ", "c", " ">>,
      inner |-> <<>>],
     [parent |-> 0, tag |-> "a", kind |-> "element",
      text  |-> <<>>,
      outer |-> <<"<", "a", " ", "h", "r", "e", "f", "=", "\"", " ", "/", "p", " ", " ", "q", " ", "\"", ">", "<", "/", "a", ">">>,
      inner |-> <<>>],
     [parent |-> 5, tag |-> "@href", kind |-> "attr",
      text  |-> <<" ", "/", "p", " ", " ", "q", " ">>,
      outer |-> <<" ", "h", "r", "e", "f", "=", "\"", " ", "/", "p", " ", " ", "q", " ", "\"">>,
      inner |-> <<>>] >>

\* <li><s> 5 \n</s></li><li><b>x</b></li><li><s>7</s><b>Y z</b></li>
DocProducts ==
  << [parent |-> 0, tag |-> "li", kind |-> "element",
      text  |-> <<" ", "5", " ", "\n">>,
      outer |-> <<"<", "l", "i", ">", "<", "s", ">", " ", "5", " ", "\n", "<", "/", "s", ">", "<", "/", "l", "i", ">">>,
      inner |-> <<"<", "s", ">", " ", "5", " ", "\n", "<", "/", "s", ">">>],
     [parent |-> 1, tag |-> "s", kind |-> "element",
      text  |-> <<" ", "5", " ", "\n">>,
      outer |-> <<"<", "s", ">", " ", "5", " ", "\n", "<", "/", "s", ">">>,
      inner |-> <<" ", "5", " ", "\n">>],
     [parent |-> 2, tag |-> "#text", kind |-> "text",
      text  |-> <<" ", "5", " ", "\n">>,
      outer |-> <<" ", "5", " ", "\n">>,
      inner |-> <<>>],
     [parent |-> 0, tag |-> "li", kind |-> "element",
      text  |-> <<"x">>,
      outer |-> <<"<", "l", "i", ">", "<", "b", ">", "x", "<", "/", "b", ">", "<", "/", "l", "i", ">">>,
      inner |-> <<"<", "b", ">", "x", "<", "/", "b", ">">>],
     [parent |-> 4, tag |-> "b", kind |-> "element",
      text  |-> <<"x">>,
      outer |-> <<"<", "b", ">", "x", "<", "/", "b", ">">>,
      inner |-> <<"x">>],
     [parent |-> 5, tag |-> "#text", kind |-> "text",
      text  |-> <<"x">>,
      outer |-> <<"x">>,
      inner |-> <<>>],
     [parent |-> 0, tag |-> "li", kind |-> "element",
      text  |-> <<"7", "Y", " ", "z">>,
      outer |-> <<"<", "l", "i", ">", "<", "s", ">", "7", "<", "/", "s", ">", "<", "b", ">", "Y", " ", "z", "<", "/", "b", ">", "<", "/", "l", "i", ">">>,
      inner |-> <<"<", "s", ">", "7", "<", "/", "s", ">", "<", "b", ">", "Y", " ", "z", "<", "/", "b", ">">>],
     [parent |-> 7, tag |-> "s", kind |-> "element",
      text  |-> <<"7">>,
      outer |-> <<"<", "s", ">", "7", "<", "/", "s", ">">>,
      inner |-> <<"7">>],
     [parent |-> 8, tag |-> "#text", kind |-> "text",
      text  |-> <<"7">>,
      outer |-> <<"7">>,
      inner |-> <<>>],
     [parent |-> 7, tag |-> "b", kind |-> "element",
      text  |-> <<"Y", " ", "z">>,
      outer |-> <<"<", "b", ">", "Y", " ", "z", "<", "/", "b", ">">>,
      inner |-> <<"Y", " ", "z">>],
     [parent |-> 10, tag |-> "#text", kind |-> "text",
      text  |-> <<"Y", " ", "z">>,
      outer |-> <<"Y", " ", "z">>,
      inner |-> <<>>] >>

\* <div><b>Judul</b> <i>: Test</i></div>
DocInfo ==
  << [parent |-> 0, tag |-> "div", kind |-> "element",
      text  |-> <<"J", "u", "d", "u", "l", " ", ":", " ", "T", "e", "s", "t">>,
      outer |-> <<"<", "d", "i", "v", ">", "<", "b", ">", "J", "u", "d", "u", "l", "<", "/", "b", ">", " ", "<", "i", ">", ":", " ", "T", "e", "s", "t", "<", "/", "i", ">", "<", "/", "d", "i", "v", ">">>,
      inner |-> <<"<", "b", ">", "J", "u", "d", "u", "l", "<", "/", "b", ">", " ", "<", "i", ">", ":", " ", "T", "e", "s", "t", "<", "/", "i", ">">>],
     [parent |-> 1, tag |-> "b", kind |-> "element",
      text  |-> <<"J", "u", "d", "u", "l">>,
      outer |-> <<"<", "b", ">", "J", "u", "d", "u", "l", "<", "/", "b", ">">>,
      inner |-> <<"J", "u", "d", "u", "l">>],
     [parent |-> 2, tag |-> "#text", kind |-> "text",
      text  |-> <<"J", "u", "d", "u", "l">>,
      outer |-> <<"J", "u", "d", "u", "l">>,
      inner |-> <<>>],
     [parent |-> 1, tag |-> "#text", kind |-> "text",
      text  |-> <<" ">>,
      outer |-> <<" ">>,
      inner |-> <<>>],
     [parent |-> 1, tag |-> "i", kind |-> "element",
      text  |-> <<":", " ", "T", "e", "s", "t">>,
      outer |-> <<"<", "i", ">", ":", " ", "T", "e", "s", "t", "<", "/", "i", ">">>,
      inner |-> <<":", " ", "T", "e", "s", "t">>],
     [parent |-> 5, tag |-> "#text", kind |-> "text",
      text  |-> <<":", " ", "T", "e", "s", "t">>,
      outer |-> <<":", " ", "T", "e", "s", "t">>,
      inner |-> <<>>] >>

\* <span>1.5K</span><a href="/page"></a>
DocLinks ==
  << [parent |-> 0, tag |-> "span", kind |-> "element",
      text  |-> <<"1", ".", "5", "K">>,
      outer |-> <<"<", "s", "p", "a", "n", ">", "1", ".", "5", "K", "<", "/", "s", "p", "a", "n", ">">>,
      inner |-> <<"1", ".", "5", "K">>],
     [parent |-> 1, tag |-> "#text", kind |-> "text",
      text  |-> <<"1", ".", "5", "K">>,
      outer |-> <<"1", ".", "5", "K">>,
      inner |-> <<>>],
     [parent |-> 0, tag |-> "a", kind |-> "element",
      text  |-> <<>>,
      outer |-> <<"<", "a", " ", "h", "r", "e", "f", "=", "\"", "/", "p", "a", "g", "e", "\"", ">", "<", "/", "a", ">">>,
      inner |-> <<>>],
     [parent |-> 3, tag |-> "@href", kind |-> "attr",
      text  |-> <<"/", "p", "a", "g", "e">>,
      outer |-> <<" ", "h", "r", "e", "f", "=", "\"", "/", "p", "a", "g", "e", "\"">>,
      inner |-> <<>>] >>

Docs == <<DocTitle, DocProducts, DocInfo, DocLinks>>

DocIds == 1..Len(Docs)

Rel(tag) == [kind |-> "rel", tag |-> tag]

Abs(tag) == [kind |-> "abs", tag |-> tag]

\* a malformed expression such as "//h1[[[invalid"
BadXpath == [kind |-> "bad", tag |-> ""]

Regex(anchorStart, atoms) ==
  [valid |-> TRUE, anchorStart |-> anchorStart, anchorEnd |-> FALSE, atoms |-> atoms]

\* a source the RegExp constructor rejects, such as "("
BadRegex == [valid |-> FALSE, anchorStart |-> FALSE, anchorEnd |-> FALSE, atoms |-> <<>>]

\* "^Judul : "
ReJudul ==
  Regex(TRUE, <<Lit("J"), Lit("u"), Lit("d"), Lit("u"), Lit("l"),
                Lit(" "), Lit(":"), Lit(" ")>>)

\* "^a"
ReStartA == Regex(TRUE, <<Lit("a")>>)

\* "B"
ReB == Regex(FALSE, <<Lit("B")>>)

\* "\\s*c"
ReSpacesC == Regex(FALSE, <<[cs |-> WhiteSpace, neg |-> FALSE, star |-> TRUE], Lit("c")>>)

\* "[^0-9.]"
ReNonNumeric ==
  Regex(FALSE, <<[cs |-> {"0","1","2","3","4","5","6","7","8","9","."},
                  neg |-> TRUE, star |-> FALSE]>>)

Rule(pattern, replacement, flags) ==
  [pattern |-> pattern, replacement |-> replacement, flags |-> flags]

RegexConfig(rules) ==
  [type |-> "regex", hasRules |-> TRUE, rules |-> rules,
   hasBaseUrl |-> FALSE, baseUrl |-> <<>>]

\* { type: t } with no other property
BareConfig(t) ==
  [type |-> t, hasRules |-> FALSE, rules |-> <<>>,
   hasBaseUrl |-> FALSE, baseUrl |-> <<>>]

NoPipes ==
  [defined |-> FALSE, trim |-> FALSE, toLowerCase |-> FALSE, toUpperCase |-> FALSE,
   decode |-> FALSE, replace |-> <<>>, merge |-> "none", custom |-> <<>>]

Pipes(flags, replace, merge, custom) ==
  [defined |-> TRUE, trim |-> "trim" \in flags,
   toLowerCase |-> "toLowerCase" \in flags, toUpperCase |-> "toUpperCase" \in flags,
   decode |-> "decode" \in flags, replace |-> replace, merge |-> merge,
   custom |-> custom]

Meta(multiple, multiline, alterPattern, isContainer) ==
  [multiple |-> multiple, multiline |-> multiline,
   alterPattern |-> alterPattern, isContainer |-> isContainer]

Field(key, patterns, alterPattern, multiple, pipes) ==
  [key |-> key, patternType |-> "xpath", returnType |-> "text",
   patterns |-> patterns, meta |-> Meta(multiple, FALSE, alterPattern, FALSE),
   pipes |-> pipes]

\* pipes objects
PTrim == Pipes({"trim"}, <<>>, "none", <<>>)

POrder ==
  Pipes({"decode", "toLowerCase", "trim"},
        <<[from |-> ReStartA, to |-> <<"X">>]>>, "none", <<>>)

PReplaceCustom ==
  Pipes({}, <<[from |-> ReB, to |-> <<" ", "c">>]>>, "none",
        <<RegexConfig(<<Rule(ReSpacesC, <<"-">>, <<>>)>>)>>)

PUpper ==
  Pipes({"toUpperCase", "trim"}, <<[from |-> ReB, to |-> <<" ", " ">>]>>, "none",
        <<BareConfig("reverse")>>)

PThrow ==
  Pipes({"trim"}, <<>>, "none",
        <<BareConfig("regex"), RegexConfig(<<Rule(ReB, <<" ", " ">>, <<"g">>)>>)>>)

PBadRule ==
  Pipes({}, <<>>, "none",
        <<RegexConfig(<<Rule(ReB, <<"q">>, <<>>), Rule(BadRegex, <<>>, <<>>)>>),
          BareConfig("reverse")>>)

PBadReplace == Pipes({"trim"}, <<[from |-> BadRegex, to |-> <<>>]>>, "none", <<>>)

PJudul(merge) ==
  Pipes({}, <<>>, merge, <<RegexConfig(<<Rule(ReJudul, <<>>, <<>>)>>)>>)

PMergeComma ==
  Pipes({"toLowerCase"}, <<[from |-> ReNonNumeric, to |-> <<>>]>>, "with comma",
        <<BareConfig("regex"), BareConfig("reverse")>>)

\* "0"
ReZero == Regex(FALSE, <<Lit("0")>>)

\* 'https://example.com'
ExampleBase == <<"h", "t", "t", "p", "s", ":", "/", "/", "e", "x", "a", "m", "p", "l", "e", ".", "c", "o", "m">>

\* { type: 'url-resolve', baseUrl }
UrlResolveConfig(baseUrl) ==
  [type |-> "url-resolve", hasRules |-> FALSE, rules |-> <<>>,
   hasBaseUrl |-> TRUE, baseUrl |-> baseUrl]

PNumber == Pipes({}, <<>>, "none", <<BareConfig("num-normalize")>>)

PForward ==
  Pipes({}, <<>>, "none",
        <<BareConfig("reverse"), BareConfig("num-normalize"),
          RegexConfig(<<Rule(ReZero, <<"o">>, <<>>)>>)>>)

PParseAsUrl == Pipes({}, <<>>, "none", <<BareConfig("parse-as-url")>>)

PUrlResolve == Pipes({}, <<>>, "none", <<UrlResolveConfig(ExampleBase)>>)

\* the descriptors the calls are built from
Descriptors ==
  << Field("a", <<Rel("h2")>>, <<Rel("h1")>>, "false", PTrim),
     Field("a", <<BadXpath, Rel("h2")>>, <<Rel("s"), Rel("b")>>, "false", NoPipes),
     Field("b", <<Rel("b"), Rel("s")>>, <<Rel("#text")>>, "false", NoPipes),
     Field("b", <<Rel("h2")>>, <<BadXpath, Abs("b")>>, "true", PUpper),
     Field("a", <<Rel("h2"), BadXpath>>, <<>>, "false", PTrim),
     Field("a", <<Rel("p")>>, <<Rel("s")>>, "false", POrder),
     Field("b", <<Rel("p"), Rel("b")>>, <<>>, "false", PReplaceCustom),
     Field("a", <<Rel("#text")>>, <<>>, "true", PJudul("true")),
     Field("b", <<Rel("h2")>>, <<Rel("#text")>>, "true", PJudul("with space")),
     Field("b", <<Rel("#text")>>, <<>>, "true", PMergeComma),
     Field("a", <<Rel("#text")>>, <<>>, "with comma", PJudul("none")),
     Field("b", <<Rel("p"), Rel("b")>>, <<>>, "false", PThrow),
     Field("a", <<Rel("b"), Rel("p")>>, <<>>, "false", PBadRule),
     Field("b", <<Rel("s")>>, <<>>, "false", PBadReplace),
     [Field("a", <<Rel("s"), Rel("@href")>>, <<>>, "false", PTrim)
        EXCEPT !.returnType = "rawHTML"],
     [Field("b", <<Rel("#text")>>, <<>>, "true", PTrim) EXCEPT !.meta.multiline = TRUE],
     [Field("c", <<Rel("li")>>, <<>>, "false", NoPipes) EXCEPT !.meta.isContainer = TRUE],
     [Field("c", <<BadXpath>>, <<Rel("div"), Rel("li")>>, "false", NoPipes)
        EXCEPT !.meta.isContainer = TRUE],
     [Field("a", <<Rel("h1")>>, <<>>, "false", NoPipes) EXCEPT !.patternType = "css"],
     Field("a", <<Rel("span")>>, <<>>, "false", PNumber),
     Field("b", <<Rel("span")>>, <<>>, "false", PForward),
     Field("a", <<Rel("@href")>>, <<>>, "false", PParseAsUrl),
     Field("b", <<Rel("@href")>>, <<>>, "false", PUrlResolve),
     Field("b", <<Rel("h2"), Rel("span")>>, <<>>, "true", PNumber),
     Field("b", <<Rel("p")>>, <<>>, "false",
           Pipes({"toLowerCase", "toUpperCase"}, <<>>, "none", <<>>)),
     [Field("d", <<Rel("b")>>, <<>>, "false", NoPipes) EXCEPT !.meta.isContainer = TRUE] >>

\* the descriptors the calls on document d choose from
FieldPool(d) ==
  {Descriptors[i] : i \in
     CASE Docs[d] = DocTitle    -> {1, 5, 6, 7, 12, 13, 15, 16, 17, 19, 25}
       [] Docs[d] = DocProducts -> {2, 3, 4, 5, 10, 14, 15, 17, 18}
       [] Docs[d] = DocInfo     -> {5, 8, 9, 11, 16, 18}
       [] Docs[d] = DocLinks    -> {20, 21, 22, 23, 24}}

RECURSIVE SeqsUpTo(_, _)
SeqsUpTo(S, n) ==
  IF n = 0 THEN {<<>>}
  ELSE LET Longer(shorter) == shorter \cup {Append(q, x) : q \in shorter, x \in S}
       IN Longer(SeqsUpTo(S, n - 1))

\* the descriptor lists of the calls on document d; on the product list
\* also lists with two descriptors marked isContainer and a field descriptor
PatternLists(d) ==
  SeqsUpTo(FieldPool(d), MaxFields)
    \cup (IF Docs[d] = DocProducts
          THEN {<<Descriptors[17], Descriptors[26], Descriptors[3]>>,
                <<Descriptors[26], Descriptors[17], Descriptors[3]>>}
          ELSE {})

PageUrl == <<"h", "t", "t", "p", ":", "/", "/", "x", "/">>

\* a url that is not one, such as 'not a url'
InvalidUrl == <<"x">>

\* html (0: not given) and url (empty: not given) of the calls on document d;
\* the page behind PageUrl and behind ExampleBase is DocInfo
Sources(d) ==
  {[html |-> d, url |-> <<>>]}
    \cup (IF Docs[d] = DocInfo
          THEN {[html |-> d, url |-> PageUrl], [html |-> 0, url |-> PageUrl],
                [html |-> 0, url |-> ExampleBase], [html |-> 0, url |-> InvalidUrl],
                [html |-> 0, url |-> <<>>]}
          ELSE IF Docs[d] = DocLinks
          THEN {[html |-> d, url |-> PageUrl]}
          ELSE {})

\* the expression lists validateXpath is called with
MaxXpaths == 2

XpathLists == SeqsUpTo({Rel("h2"), BadXpath, Rel("span"), Rel("p")}, MaxXpaths)

\* the url lists checkUrlAlive is called with
MaxUrls == 2

UrlLists == SeqsUpTo({PageUrl, ExampleBase}, MaxUrls)

\* urls: string | string[]
UrlInputs ==
  {[isArray |-> TRUE, urls |-> urls] : urls \in UrlLists}
    \cup {[isArray |-> FALSE, urls |-> <<PageUrl>>]}

\* what a request settles with: a response (status, body) or an error
\* without one (code, message)
NoResponse == [kind |-> "none", status |-> 0, code |-> "", message |-> "", body |-> 0]

HttpResponse(status, body) ==
  [kind |-> "response", status |-> status, code |-> "", message |-> "", body |-> body]

NetworkError(code, message) ==
  [kind |-> "error", status |-> 0, code |-> code, message |-> message, body |-> 0]

\* the settlements of a GET of url: its page, an error status, a
\* connection-level error; a certificate error over https only; nothing but
\* the rejection of the url when it is not one
GetSettlements(url) ==
  IF ~ParseUrl(url).valid
  THEN {NetworkError("ERR_INVALID_URL", "Invalid URL")}
  ELSE {HttpResponse(200, d) : d \in {d \in DocIds : Docs[d] = DocInfo}}
         \cup {HttpResponse(404, 0), HttpResponse(500, 0),
               NetworkError("ECONNRESET", "socket hang up"),
               NetworkError("ETIMEDOUT", "timeout"),
               NetworkError("ENOTFOUND", "getaddrinfo ENOTFOUND")}
         \cup (IF ParseUrl(url).protocol = <<"h", "t", "t", "p", "s", ":">>
               THEN {NetworkError("CERT_HAS_EXPIRED", "certificate has expired")}
               ELSE {})

\* the settlements of a HEAD request
HeadSettlements ==
  {HttpResponse(200, 0), HttpResponse(399, 0), HttpResponse(400, 0),
   HttpResponse(503, 0),
   NetworkError("ECONNREFUSED", "connect ECONNREFUSED"),
   NetworkError("", "")}

\* options?.maxRetries ?? 3
DefaultMaxRetries == 3

\* ------------------------------------------------------------------------
\* State
\* ------------------------------------------------------------------------

VARIABLES
  engine,          \* ScraperHtmlService.engine, set by the constructor
  maxRetries,      \* ScraperHtmlService.maxRetries, set by the constructor
  PIPE_REGISTRY,   \* the pipe registry: type -> class
  pc,              \* "idle"; "fetching" (evaluateWebsite awaits fetchHtml);
                   \* "returned" (evaluateWebsite settled); "validated";
                   \* "checking" (checkUrlAlive awaits its requests); "checked"
  call,            \* the options of the evaluateWebsite call and the document parsed
  outcome,         \* [err, results] of the settled call (err = "": resolved)
  queried,         \* the engine queries of the settled call, in order
  fetch,           \* fetchHtml: requests issued, last settlement received
  validation,      \* validateXpath: arguments and what it returned or threw
  health,          \* checkUrlAlive: urlArray, requests in flight, the
                   \* settlements in the order they came, results
  suppressXpathErrors,   \* ScraperHtmlService.suppressXpathErrors
  errorCatchingHandler,  \* libxmljs.errorCatchingHandler: 0 is undefined, -1 a
                         \* handler of the application, n > 0 the function
                         \* the n-th HtmlBuilder constructor installed
  handles,         \* the HtmlBuilder constructions, in the order they ran
  tasks,           \* the service calls in progress at once, by call number
  events,          \* the constructions and destroy calls, in order
  norm             \* a string and what white-space normalization makes of it

vars ==
  <<engine, maxRetries, PIPE_REGISTRY, pc, call, outcome, queried, fetch,
    validation, health, suppressXpathErrors, errorCatchingHandler, handles,
    tasks, events, norm>>

\* the service calls that can be in progress at once
MaxCalls == 2

\* the handles a direct user of HtmlBuilder creates
MaxHandles == 2

\* the strings the white-space normalization is applied to
MaxText == 4

NoCall == [html |-> 0, url |-> <<>>, patterns |-> <<>>, doc |-> 0]

NoOutcome == [err |-> "", results |-> <<>>]

NoFetch == [requests |-> 0, last |-> NoResponse]

NoValidation ==
  [html |-> 0, xpathPatterns |-> <<>>, err |-> "", valid |-> TRUE, results |-> <<>>]

NoHealth == [urlArray |-> <<>>, pending |-> {}, settled |-> <<>>, results |-> <<>>]

\* the fields every construction sets the same way
Constructed ==
  /\ engine \in {"libxmljs", "jsdom"}
  /\ PIPE_REGISTRY = InitialRegistry
  /\ pc = "idle"
  /\ call = NoCall
  /\ outcome = NoOutcome
  /\ queried = <<>>
  /\ fetch = NoFetch
  /\ validation = NoValidation
  /\ health = NoHealth
  /\ handles = <<>>
  /\ tasks = [c \in 1..MaxCalls |->
                [op |-> "", html |-> 0, url |-> <<>>, patterns |-> <<>>,
                 pc |-> "idle", handle |-> 0]]
  /\ events = <<>>

\* new ScraperHtmlService(httpService) with no options: with
\* suppressXpathErrors false loadHtml and destroy leave the handler of the
\* engine alone
Init ==
  /\ Constructed
  /\ maxRetries = DefaultMaxRetries
  /\ suppressXpathErrors = FALSE
  /\ errorCatchingHandler = 0
  /\ norm = [fn |-> "", input |-> <<>>, prev |-> <<>>, out |-> <<>>, times |-> 0]

\* new ScraperHtmlService(httpService, { maxRetries })
InitWithMaxRetries ==
  /\ Constructed
  /\ maxRetries \in 0..DefaultMaxRetries
  /\ suppressXpathErrors = FALSE
  /\ errorCatchingHandler = 0
  /\ norm = [fn |-> "", input |-> <<>>, prev |-> <<>>, out |-> <<>>, times |-> 0]

\* PIPE_REGISTRY[type] = PipeClass
Register(type, class) ==
  /\ pc = "idle"
  /\ PIPE_REGISTRY' =
       [t \in DOMAIN PIPE_REGISTRY \cup {type} |->
          IF t = type THEN class ELSE PIPE_REGISTRY[t]]
  /\ UNCHANGED <<suppressXpathErrors, errorCatchingHandler, handles, tasks, events, norm>>
  /\ UNCHANGED <<engine, maxRetries, pc, call, outcome, queried, fetch,
                 validation, health>>

\* evaluateWebsite from "if (!html)" on, with the html it has by then
Evaluate(options, html) ==
  IF html = 0
  THEN /\ outcome' = [err |-> "Either html or url must be provided",
                      results |-> <<>>]
       /\ call' = [options EXCEPT !.doc = 0]
       /\ queried' = <<>>
  ELSE LET Settle(r) ==
             /\ outcome' = [err |-> r.err,
                            results |-> IF r.err = "" THEN r.results
                                        ELSE <<>>]
             /\ call' = [options EXCEPT !.doc = html]
             /\ queried' = r.queried
       IN Settle(ExtractData(options.patterns,
                             LoadHtml(Docs[html], engine = "jsdom"),
                             options.url, PIPE_REGISTRY))

\* evaluateWebsite(options), up to its return or to the first request of
\* fetchHtml
EvaluateWebsite(options) ==
  /\ pc = "idle"
  /\ IF options.html = 0 /\ options.url # <<>>
     THEN /\ pc' = "fetching"
          /\ fetch' = [requests |-> 1, last |-> NoResponse]
          /\ call' = [options EXCEPT !.doc = 0]
          /\ UNCHANGED <<outcome, queried>>
     ELSE /\ pc' = "returned"
          /\ fetch' = NoFetch
          /\ Evaluate(options, options.html)
  /\ UNCHANGED <<suppressXpathErrors, errorCatchingHandler, handles, tasks, events, norm>>
  /\ UNCHANGED <<engine, maxRetries, PIPE_REGISTRY, validation, health>>

\* the delay callback of retry: !axiosError.response || status >= 500 ||
\* code === 'ECONNRESET'
IsRetryable(error) ==
  \/ error.kind # "response"
  \/ error.status >= 500
  \/ error.code = "ECONNRESET"

\* retry subscribing once more than count allows
ResubscribesOnceMore(count, requests, error) ==
  /\ count > 0
  /\ requests - 1 <= count
  /\ IsRetryable(error)

\* retry({ count, delay }) on the error of request number requests: TRUE
\* when the source is subscribed again
Resubscribes(count, requests, error) ==
  /\ count > 0
  /\ requests - 1 < count
  /\ IsRetryable(error)

\* the request of fetchHtml in flight settles: with a 2xx response
\* evaluateWebsite goes on with its body; with an error retry issues the next
\* request or the error reaches the caller of evaluateWebsite
FetchSettles(settlement) ==
  /\ pc = "fetching"
  /\ IF settlement.kind = "response" /\ settlement.status >= 200
          /\ settlement.status < 300
     THEN /\ pc' = "returned"
          /\ fetch' = [fetch EXCEPT !.last = settlement]
          /\ Evaluate(call, settlement.body)
     ELSE IF Resubscribes(maxRetries, fetch.requests, settlement)
     THEN /\ fetch' = [requests |-> fetch.requests + 1, last |-> settlement]
          /\ UNCHANGED <<pc, call, outcome, queried>>
     ELSE /\ pc' = "returned"
          /\ fetch' = [fetch EXCEPT !.last = settlement]
          /\ outcome' = [err |-> "FetchError", results |-> <<>>]
          /\ UNCHANGED <<call, queried>>
  /\ UNCHANGED <<suppressXpathErrors, errorCatchingHandler, handles, tasks, events, norm>>
  /\ UNCHANGED <<engine, maxRetries, PIPE_REGISTRY, validation, health>>

\* libxmljs.parseHtml throws on an empty text, new JSDOM does not
LoadHtmlThrows(html, useJSDom) == html = 0 /\ ~useJSDom

\* the nodes of the document text html (0: the empty text)
TextOf(html) == IF html = 0 THEN <<>> ELSE Docs[html]

\* the forEach over xpathPatterns ending at the first expression that throws
RECURSIVE ValidateFromUntilInvalid(_, _, _)
ValidateFromUntilInvalid(dom, xpathPatterns, i) ==
  IF i > Len(xpathPatterns) THEN <<>>
  ELSE LET xpath == xpathPatterns[i]
           Entries(r) ==
             IF r.threw
             THEN <<[xpath |-> xpath, valid |-> FALSE, matchCount |-> 0,
                     hasSample |-> FALSE, sample |-> <<>>,
                     error |-> "Invalid expression"]>>
             ELSE <<[xpath |-> xpath, valid |-> TRUE, matchCount |-> Len(r.nodes),
                     hasSample |-> Len(r.nodes) > 0,
                     sample |-> IF Len(r.nodes) > 0
                                THEN GetValueXML(dom, r.nodes[1]) ELSE <<>>,
                     error |-> ""]>>
                    \o ValidateFromUntilInvalid(dom, xpathPatterns, i + 1)
       IN Entries(FindXpath(dom, xpath))

\* validateXpath: the forEach over xpathPatterns from index i on
RECURSIVE ValidateFrom(_, _, _)
ValidateFrom(dom, xpathPatterns, i) ==
  IF i > Len(xpathPatterns) THEN <<>>
  ELSE LET xpath == xpathPatterns[i]
           Entry(r) ==
             IF r.threw
             THEN [xpath |-> xpath, valid |-> FALSE, matchCount |-> 0,
                   hasSample |-> FALSE, sample |-> <<>>,
                   error |-> "Invalid expression"]
             ELSE [xpath |-> xpath, valid |-> TRUE, matchCount |-> Len(r.nodes),
                   hasSample |-> Len(r.nodes) > 0,
                   sample |-> IF Len(r.nodes) > 0
                              THEN GetValueXML(dom, r.nodes[1]) ELSE <<>>,
                   error |-> ""]
       IN <<Entry(FindXpath(dom, xpath))>> \o ValidateFrom(dom, xpathPatterns, i + 1)

\* validateXpath(html, xpathPatterns)
ValidateXpath(html, xpathPatterns) ==
  /\ pc = "idle"
  /\ pc' = "validated"
  /\ IF LoadHtmlThrows(html, engine = "jsdom")
     THEN validation' = [html |-> html, xpathPatterns |-> xpathPatterns,
                         err |-> "ParseError", valid |-> FALSE, results |-> <<>>]
     ELSE LET Result(results) ==
                validation' =
                  [html |-> html, xpathPatterns |-> xpathPatterns, err |-> "",
                   valid |-> \A k \in 1..Len(results) : results[k].valid,
                   results |-> results]
          IN Result(ValidateFrom(LoadHtml(TextOf(html), engine = "jsdom"),
                                 xpathPatterns, 1))
  /\ UNCHANGED <<suppressXpathErrors, errorCatchingHandler, handles, tasks, events, norm>>
  /\ UNCHANGED <<engine, maxRetries, PIPE_REGISTRY, call, outcome, queried,
                 fetch, health>>

\* checkUrlAlive(urls) up to the await of Promise.all: one HEAD request per
\* element of urlArray is in flight
CheckUrlAlive(urls) ==
  /\ pc = "idle"
  /\ pc' = "checking"
  /\ LET urlArray == urls.urls
     IN health' = [urlArray |-> urlArray,
                   pending  |-> 1..Len(urlArray),
                   settled  |-> <<>>,
                   results  |-> [i \in 1..Len(urlArray) |->
                                   [url |-> urlArray[i], alive |-> FALSE,
                                    statusCode |-> 0, error |-> ""]]]
  /\ UNCHANGED <<suppressXpathErrors, errorCatchingHandler, handles, tasks, events, norm>>
  /\ UNCHANGED <<engine, maxRetries, PIPE_REGISTRY, call, outcome, queried,
                 fetch, validation>>

\* the result of the async callback of urlArray.map for one url
HealthOf(url, settlement) ==
  IF settlement.kind = "response"
  THEN [url |-> url,
        alive |-> settlement.status >= 200 /\ settlement.status < 400,
        statusCode |-> settlement.status, error |-> ""]
  ELSE [url |-> url, alive |-> FALSE, statusCode |-> 0,
        error |-> IF settlement.message = "" THEN "Unknown error"
                  ELSE settlement.message]

\* the HEAD request for urlArray[i] settles, its result going to the next
\* free place of the list
HeadSettlesInArrivalOrder(i, settlement) ==
  /\ pc = "checking"
  /\ i \in health.pending
  /\ health' = [health EXCEPT !.pending = @ \ {i},
                              !.settled = Append(@, [i |-> i, settlement |-> settlement]),
                              !.results[Len(health.settled) + 1] =
                                 HealthOf(health.urlArray[i], settlement)]
  /\ UNCHANGED <<suppressXpathErrors, errorCatchingHandler, handles, tasks, events, norm>>
  /\ UNCHANGED <<engine, maxRetries, PIPE_REGISTRY, pc, call, outcome, queried,
                 fetch, validation>>

\* the HEAD request for urlArray[i] settles
HeadSettles(i, settlement) ==
  /\ pc = "checking"
  /\ i \in health.pending
  /\ health' = [health EXCEPT !.pending = @ \ {i},
                              !.settled = Append(@, [i |-> i, settlement |-> settlement]),
                              !.results[i] = HealthOf(health.urlArray[i], settlement)]
  /\ UNCHANGED <<suppressXpathErrors, errorCatchingHandler, handles, tasks, events, norm>>
  /\ UNCHANGED <<engine, maxRetries, PIPE_REGISTRY, pc, call, outcome, queried,
                 fetch, validation>>

\* Promise.all resolves once every callback has returned
CheckUrlAliveResolves ==
  /\ pc = "checking"
  /\ health.pending = {}
  /\ pc' = "checked"
  /\ UNCHANGED <<suppressXpathErrors, errorCatchingHandler, handles, tasks, events, norm>>
  /\ UNCHANGED <<engine, maxRetries, PIPE_REGISTRY, call, outcome, queried,
                 fetch, validation, health>>

\* the caller takes the result of the call
Return ==
  /\ pc \in {"returned", "validated", "checked"}
  /\ pc' = "idle"
  /\ call' = NoCall
  /\ outcome' = NoOutcome
  /\ queried' = <<>>
  /\ fetch' = NoFetch
  /\ validation' = NoValidation
  /\ health' = NoHealth
  /\ UNCHANGED <<suppressXpathErrors, errorCatchingHandler, handles, tasks, events, norm>>
  /\ UNCHANGED <<engine, maxRetries, PIPE_REGISTRY>>

\* the options of the evaluateWebsite calls on document d; the calls that
\* fetch carry at most one descriptor
Calls(d) ==
  {[html |-> x[1].html, url |-> x[1].url, patterns |-> x[2], doc |-> 0] :
     x \in {y \in Sources(d) \X PatternLists(d) : y[1].html = 0 => Len(y[2]) <= 1}}

\* the calls that fetch their document
FetchCalls ==
  UNION {{o \in Calls(d) : o.html = 0 /\ o.url # <<>>} : d \in DocIds}

Next ==
  \/ Register("reverse", "ReversePipe")
  \/ \E d \in DocIds : \E options \in Calls(d) : EvaluateWebsite(options)
  \/ \E settlement \in GetSettlements(call.url) : FetchSettles(settlement)
  \/ \E html \in {0} \cup DocIds, xpathPatterns \in XpathLists :
       ValidateXpath(html, xpathPatterns)
  \/ \E urls \in UrlInputs : CheckUrlAlive(urls)
  \/ \E i \in 1..MaxUrls, settlement \in HeadSettlements : HeadSettles(i, settlement)
  \/ CheckUrlAliveResolves
  \/ Return

Spec == Init /\ [][Next]_vars

\* fetchHtml under every maxRetries option: the calls that fetch, and
\* every request settling in the end
FetchNext ==
  \/ \E options \in FetchCalls : EvaluateWebsite(options)
  \/ \E settlement \in GetSettlements(call.url) : FetchSettles(settlement)
  \/ Return

FetchSpec ==
  /\ InitWithMaxRetries
  /\ [][FetchNext]_vars
  /\ WF_vars(\E settlement \in GetSettlements(call.url) : FetchSettles(settlement))

\* ------------------------------------------------------------------------
\* White-space normalization on its own
\* ------------------------------------------------------------------------

InitNormalize ==
  /\ Constructed
  /\ maxRetries = DefaultMaxRetries
  /\ suppressXpathErrors = FALSE
  /\ errorCatchingHandler = 0
  /\ \E fn \in {"applyPipes", "normalizeWhitespace"}, text \in SeqsUpTo({"a", " ", "\n", NBSP}, MaxText) :
       norm = [fn |-> fn, input |-> text, prev |-> text, out |-> text, times |-> 0]

\* the normalization of norm.fn applied to what the last application gave
Normalize ==
  /\ norm.times < 2
  /\ norm' = [norm EXCEPT
                !.prev = norm.out,
                !.out = IF norm.fn = "applyPipes" THEN Trim(CollapseSpaces(norm.out))
                        ELSE NormalizeWhitespace(norm.out),
                !.times = norm.times + 1]
  /\ UNCHANGED <<engine, maxRetries, PIPE_REGISTRY, pc, call, outcome, queried, fetch,
               validation, health>>
  /\ UNCHANGED <<suppressXpathErrors, errorCatchingHandler, handles, tasks, events>>

NormalizeSpec == InitNormalize /\ [][Normalize]_vars

\* ------------------------------------------------------------------------
\* HtmlBuilder handles and the error handler of the engine
\* ------------------------------------------------------------------------

\* new HtmlBuilder(plainText, useJSDom, 'text/html', suppressErrors), the
\* n-th construction, run while the handler of the engine is handler; built
\* is FALSE when the parse throws
NewBuilder(n, plainText, useJSDom, suppressErrors, handler, owner) ==
  [handle  |-> [useJSDom |-> useJSDom,
                suppressErrors |-> suppressErrors,
                before |-> handler,
                originalErrorHandler |->
                  IF ~useJSDom /\ suppressErrors THEN handler ELSE 0,
                built |-> ~LoadHtmlThrows(plainText, useJSDom),
                destroys |-> 0,
                owner |-> owner],
   handler |-> IF ~useJSDom /\ suppressErrors THEN n ELSE handler]

\* HtmlBuilder.destroy
Destroy(handle, handler) ==
  IF handle.originalErrorHandler # 0 /\ ~handle.useJSDom
  THEN [handle  |-> [handle EXCEPT !.originalErrorHandler = 0,
                                   !.destroys = handle.destroys + 1],
        handler |-> handle.originalErrorHandler]
  ELSE [handle  |-> [handle EXCEPT !.destroys = handle.destroys + 1],
        handler |-> handler]

\* a call awaiting fetchHtml is suspended
SuspendsAfterLoadHtml(taskPc) == taskPc \in {"fetching", "parsed"}

\* the only await of a call is the one on fetchHtml
Suspends(taskPc) == taskPc = "fetching"

\* code may run for call c (0: for the direct user of HtmlBuilder): no
\* other call is in the middle of a run of synchronous code
MayRun(c) ==
  \A d \in 1..MaxCalls :
    d # c => (tasks[d].pc \in {"idle", "done", "raised"} \/ Suspends(tasks[d].pc))

\* the calls of the service made while others are in progress
TaskCalls ==
  LET d == CHOOSE x \in DocIds : Docs[x] = DocTitle
  IN {[op |-> "evaluateWebsite", html |-> d, url |-> <<>>,
       patterns |-> <<Descriptors[1]>>],
      [op |-> "evaluateWebsite", html |-> d, url |-> <<>>,
       patterns |-> <<Descriptors[19]>>],
      [op |-> "evaluateWebsite", html |-> 0, url |-> PageUrl,
       patterns |-> <<Descriptors[1]>>],
      [op |-> "validateXpath", html |-> d, url |-> <<>>, patterns |-> <<BadXpath>>],
      [op |-> "validateXpath", html |-> 0, url |-> <<>>, patterns |-> <<BadXpath>>]}

\* HtmlBuilder.loadHtml called by a direct user of the exported class
BuilderLoadHtml(plainText, useJSDom, suppressErrors) ==
  /\ MayRun(0)
  /\ Cardinality({h \in 1..Len(handles) : handles[h].owner = 0}) < MaxHandles
  /\ LET Made(r) ==
           /\ handles' = Append(handles, r.handle)
           /\ errorCatchingHandler' = r.handler
           /\ events' = Append(events, [what |-> "new", handle |-> Len(handles) + 1])
     IN Made(NewBuilder(Len(handles) + 1, plainText, useJSDom, suppressErrors,
                        errorCatchingHandler, 0))
  /\ UNCHANGED <<engine, maxRetries, PIPE_REGISTRY, pc, call, outcome, queried, fetch,
               validation, health>>
  /\ UNCHANGED <<suppressXpathErrors, tasks, norm>>

\* destroy called by a direct user on a handle it has not destroyed yet
BuilderDestroy(h) ==
  /\ MayRun(0)
  /\ h \in 1..Len(handles)
  /\ handles[h].owner = 0
  /\ handles[h].built
  /\ handles[h].destroys = 0
  /\ LET Done(r) ==
           /\ handles' = [handles EXCEPT ![h] = r.handle]
           /\ errorCatchingHandler' = r.handler
           /\ events' = Append(events, [what |-> "destroy", handle |-> h])
     IN Done(Destroy(handles[h], errorCatchingHandler))
  /\ UNCHANGED <<engine, maxRetries, PIPE_REGISTRY, pc, call, outcome, queried, fetch,
               validation, health>>
  /\ UNCHANGED <<suppressXpathErrors, tasks, norm>>

\* evaluateWebsite or validateXpath is called: up to the await on fetchHtml
\* when the call has a url and no html, up to loadHtml otherwise
CallBegins(c, options) ==
  /\ MayRun(c)
  /\ tasks[c].pc = "idle"
  /\ tasks' = [tasks EXCEPT ![c] =
                 [op |-> options.op, html |-> options.html, url |-> options.url,
                  patterns |-> options.patterns,
                  pc |-> IF options.op = "evaluateWebsite" /\ options.html = 0
                            /\ options.url # <<>>
                         THEN "fetching" ELSE "ready",
                  handle |-> 0]]
  /\ UNCHANGED <<engine, maxRetries, PIPE_REGISTRY, pc, call, outcome, queried, fetch,
               validation, health>>
  /\ UNCHANGED <<suppressXpathErrors, errorCatchingHandler, handles, events, norm>>

\* the await on fetchHtml ends: with the document text, or with the error
\* that the call rejects with
CallResumes(c, fetched) ==
  /\ MayRun(c)
  /\ tasks[c].pc = "fetching"
  /\ tasks' = [tasks EXCEPT ![c].html = fetched,
                            ![c].pc = IF fetched = 0 THEN "raised" ELSE "ready"]
  /\ UNCHANGED <<engine, maxRetries, PIPE_REGISTRY, pc, call, outcome, queried, fetch,
               validation, health>>
  /\ UNCHANGED <<suppressXpathErrors, errorCatchingHandler, handles, events, norm>>

\* HtmlBuilder.loadHtml(html, this.engine === 'jsdom', ..., this.suppressXpathErrors)
\* in the call; a parse that throws ends the call
CallLoadsHtml(c) ==
  /\ MayRun(c)
  /\ tasks[c].pc = "ready"
  /\ LET Made(r) ==
           /\ handles' = Append(handles, r.handle)
           /\ errorCatchingHandler' = r.handler
           /\ tasks' = [tasks EXCEPT ![c].handle = Len(handles) + 1,
                                     ![c].pc = IF r.handle.built THEN "parsed"
                                               ELSE "raised"]
     IN Made(NewBuilder(Len(handles) + 1, tasks[c].html, engine = "jsdom",
                        suppressXpathErrors, errorCatchingHandler, c))
  /\ UNCHANGED <<engine, maxRetries, PIPE_REGISTRY, pc, call, outcome, queried, fetch,
               validation, health>>
  /\ UNCHANGED <<suppressXpathErrors, events, norm>>

\* extractData in evaluateWebsite, which may throw and end the call; the
\* forEach of validateXpath, which catches what findXpath throws
CallExtracts(c) ==
  /\ MayRun(c)
  /\ tasks[c].pc = "parsed"
  /\ LET Extracted(r) ==
           tasks' = [tasks EXCEPT ![c].pc = IF r.err # "" THEN "raised"
                                            ELSE "extracted"]
     IN IF tasks[c].op = "evaluateWebsite"
        THEN Extracted(ExtractData(tasks[c].patterns,
                                   LoadHtml(Docs[tasks[c].html], engine = "jsdom"),
                                   tasks[c].url, PIPE_REGISTRY))
        ELSE tasks' = [tasks EXCEPT ![c].pc = "extracted"]
  /\ UNCHANGED <<engine, maxRetries, PIPE_REGISTRY, pc, call, outcome, queried, fetch,
               validation, health>>
  /\ UNCHANGED <<suppressXpathErrors, errorCatchingHandler, handles, events, norm>>

\* dom.destroy() and the return of the call
CallDestroys(c) ==
  /\ MayRun(c)
  /\ tasks[c].pc = "extracted"
  /\ LET Done(r) ==
           /\ handles' = [handles EXCEPT ![tasks[c].handle] = r.handle]
           /\ errorCatchingHandler' = r.handler
     IN Done(Destroy(handles[tasks[c].handle], errorCatchingHandler))
  /\ tasks' = [tasks EXCEPT ![c].pc = "done"]
  /\ UNCHANGED <<engine, maxRetries, PIPE_REGISTRY, pc, call, outcome, queried, fetch,
               validation, health>>
  /\ UNCHANGED <<suppressXpathErrors, events, norm>>

\* a service with any suppressXpathErrors option and either engine, in a
\* process whose engine has a handler installed or has none
InitWithSuppression ==
  /\ Constructed
  /\ maxRetries = DefaultMaxRetries
  /\ suppressXpathErrors \in BOOLEAN
  /\ errorCatchingHandler \in {0, -1}
  /\ norm = [fn |-> "", input |-> <<>>, prev |-> <<>>, out |-> <<>>, times |-> 0]

HandleNext ==
  \/ \E plainText \in {0, 1}, useJSDom \in BOOLEAN, suppressErrors \in BOOLEAN :
       BuilderLoadHtml(plainText, useJSDom, suppressErrors)
  \/ \E h \in 1..MaxHandles : BuilderDestroy(h)

HandleSpec == InitWithSuppression /\ [][HandleNext]_vars

CallNext ==
  \/ \E c \in 1..MaxCalls, options \in TaskCalls : CallBegins(c, options)
  \/ \E c \in 1..MaxCalls : \E fetched \in {0, 1} : CallResumes(c, fetched)
  \/ \E c \in 1..MaxCalls : CallLoadsHtml(c)
  \/ \E c \in 1..MaxCalls : CallExtracts(c)
  \/ \E c \in 1..MaxCalls : CallDestroys(c)

CallSpec == InitWithSuppression /\ [][CallNext]_vars

\* ------------------------------------------------------------------------
\* What a settled call is expected to return, stated from the engine's answers
\* (EngineFind) and the string primitives alone.
\* ------------------------------------------------------------------------

Settled == pc = "returned" /\ call.doc # 0

Resolved == Settled /\ outcome.err = ""

XDom == LoadHtml(Docs[call.doc], engine = "jsdom")

\* the nodes an expression matches in a scope; none when it is malformed
XHits(xp, ctx) ==
  LET r == EngineFind(XDom, xp, ctx) IN IF r.threw THEN <<>> ELSE r.nodes

XCands(p) == p.patterns \o p.meta.alterPattern

XResolves(p, ctx) == \E i \in 1..Len(XCands(p)) : XHits(XCands(p)[i], ctx) # <<>>

\* index of the first candidate with a match
XFirst(p, ctx) ==
  CHOOSE i \in 1..Len(XCands(p)) :
    /\ XHits(XCands(p)[i], ctx) # <<>>
    /\ \A j \in 1..(i - 1) : XHits(XCands(p)[j], ctx) = <<>>

XNodes(p, ctx) == XHits(XCands(p)[XFirst(p, ctx)], ctx)

XIsField(p) == ~p.meta.isContainer

XFields == SelectSeq(call.patterns, XIsField)

XHasContainer == \E i \in 1..Len(call.patterns) : call.patterns[i].meta.isContainer

XContainer ==
  call.patterns[CHOOSE i \in 1..Len(call.patterns) :
                  /\ call.patterns[i].meta.isContainer
                  /\ \A j \in 1..(i - 1) : ~call.patterns[j].meta.isContainer]

\* the scopes the field descriptors are resolved in, in order
XScopes ==
  IF ~XHasContainer THEN <<0>>
  ELSE IF XResolves(XContainer, 0) THEN XNodes(XContainer, 0) ELSE <<>>

XUniqueKey(p) ==
  \A i, j \in 1..Len(XFields) :
    (XFields[i].key = p.key /\ XFields[j].key = p.key) => i = j

\* nothing in the call raises for a reason other than a query or a transform
XFaultFree ==
  \A i \in 1..Len(call.patterns) :
    /\ call.patterns[i].patternType = "xpath"
    /\ \A k \in 1..Len(call.patterns[i].pipes.replace) :
         call.patterns[i].pipes.replace[k].from.valid

XRaw(p, node) == GetNodeValue(node, p.returnType, XDom)

\* steps (4) and (5) of the pipeline, as folds over the rule / transform lists
RECURSIVE XReplaceAll(_, _)
XReplaceAll(rules, v) ==
  IF rules = <<>> THEN v
  ELSE XReplaceAll(Tail(rules), RegexReplace(Head(rules).from, <<"g">>, v, Head(rules).to))

\* a transform whose exec raises hands on the value it was given
RECURSIVE XTransformAll(_, _)
XTransformAll(instances, v) ==
  IF instances = <<>> THEN v
  ELSE LET r == PipeExec(Head(instances), v)
       IN XTransformAll(Tail(instances), IF r.threw THEN v ELSE JsString(r))

XStep1(v, pipes) == IF pipes.decode THEN DecodeHtml(v) ELSE v

XStep2(v, pipes) ==
  LET l == IF pipes.toLowerCase THEN ToLowerCase(v) ELSE v
  IN IF pipes.toUpperCase THEN ToUpperCase(l) ELSE l

XStep3(v, pipes) == IF pipes.trim THEN Trim(v) ELSE v

XStep4(v, pipes) == XReplaceAll(pipes.replace, v)

XStep5(v, pipes) ==
  XTransformAll(InstantiatePipes(pipes.custom, call.url, PIPE_REGISTRY), v)

XStep6(v) == Trim(CollapseSpaces(v))

\* the value pipeline on one string: steps (1) to (6) in this order; a
\* descriptor without pipes, or an empty string, is handed back as it is
XPipeline(v, pipes) ==
  IF ~pipes.defined \/ v = <<>> THEN v
  ELSE XStep6(XStep5(XStep4(XStep3(XStep2(XStep1(v, pipes), pipes), pipes), pipes), pipes))

XSep(mode) == IF mode = "with comma" THEN <<",", " ">> ELSE <<" ">>

\* the value of a descriptor from the nodes it resolved to
XValue(p, nodes) ==
  LET raws == [i \in 1..Len(nodes) |-> XRaw(p, nodes[i])]
  IN IF p.meta.multiple = "false" THEN StrVal(XPipeline(raws[1], p.pipes))
     ELSE IF p.pipes.defined /\ p.pipes.merge # "none"
     THEN StrVal(XPipeline(Join(raws, XSep(p.pipes.merge)), p.pipes))
     ELSE LET each == [i \in 1..Len(raws) |-> XPipeline(raws[i], p.pipes)]
          IN IF p.meta.multiple = "with comma" THEN StrVal(Join(each, <<",", " ">>))
             ELSE IF p.meta.multiline THEN StrVal(Join(each, <<" ">>))
             ELSE ArrVal(each)

\* does the j-th scope give a record, and at which index of results
XKept(j) == \E i \in 1..Len(XFields) : XResolves(XFields[i], XScopes[j])

XIndex(j) == Cardinality({k \in 1..j : XKept(k)})

\* the record of the j-th scope has value v under key
XHasValue(j, key, v) ==
  /\ XIndex(j) \in 1..Len(outcome.results)
  /\ key \in DOMAIN outcome.results[XIndex(j)]
  /\ outcome.results[XIndex(j)][key] = v

\* ------------------------------------------------------------------------
\* Claims
\* ------------------------------------------------------------------------

\* p, resolved in scope ctx, matches nothing with its primary patterns and
\* something with a fallback pattern
XFallbackCase(p, ctx) ==
  /\ \A i \in 1..Len(p.patterns) : XHits(p.patterns[i], ctx) = <<>>
  /\ \E i \in 1..Len(p.meta.alterPattern) : XHits(p.meta.alterPattern[i], ctx) # <<>>

XFirstFallback(p, ctx) ==
  CHOOSE i \in 1..Len(p.meta.alterPattern) :
    /\ XHits(p.meta.alterPattern[i], ctx) # <<>>
    /\ \A j \in 1..(i - 1) : XHits(p.meta.alterPattern[j], ctx) = <<>>

\* C1: when the primary patterns of a field descriptor all match zero nodes
\* and a fallback pattern matches, the record holds under the descriptor's key
\* the post-pipeline value extracted from the first matching fallback pattern.
C1_FallbackValue ==
  Resolved =>
    \A j \in 1..Len(XScopes) : \A i \in 1..Len(XFields) :
      LET p == XFields[i]
          ctx == XScopes[j]
      IN (XUniqueKey(p) /\ XFallbackCase(p, ctx)) =>
           XHasValue(j, p.key,
             XValue(p, XHits(p.meta.alterPattern[XFirstFallback(p, ctx)], ctx)))

\* Scenario A: <h1>Title</h1>, patterns [.//h2], fallback [.//h1] gives
\* [{a: 'Title'}]
C1_Witness ==
  /\ Resolved
  /\ call.doc = 1
  /\ call.patterns = <<Field("a", <<Rel("h2")>>, <<Rel("h1")>>, "false", PTrim)>>
  /\ outcome.results = <<[k \in {"a"} |-> StrVal(<<"T", "i", "t", "l", "e">>)]>>

\* the queries one resolution of p in scope ctx makes: the candidates in list
\* order, up to and including the first one with a match
XTried(p, ctx) ==
  LET n == IF XResolves(p, ctx) THEN XFirst(p, ctx) ELSE Len(XCands(p))
  IN [i \in 1..n |-> [xpath |-> XCands(p)[i], ctx |-> ctx]]

RECURSIVE XTriedFields(_, _)
XTriedFields(i, ctx) ==
  IF i > Len(XFields) THEN <<>>
  ELSE XTried(XFields[i], ctx) \o XTriedFields(i + 1, ctx)

RECURSIVE XTriedScopes(_)
XTriedScopes(j) ==
  IF j > Len(XScopes) THEN <<>>
  ELSE XTriedFields(1, XScopes[j]) \o XTriedScopes(j + 1)

\* C2: candidates are queried strictly in the order primary patterns, then
\* fallback patterns, each in list order; nothing is queried after the first
\* candidate with a match, whose match set is the one the value is taken from.
C2_ResolutionOrder ==
  Resolved =>
    /\ queried = (IF XHasContainer THEN XTried(XContainer, 0) ELSE <<>>)
                   \o XTriedScopes(1)
    /\ \A j \in 1..Len(XScopes) : \A i \in 1..Len(XFields) :
         LET p == XFields[i]
             ctx == XScopes[j]
         IN (XUniqueKey(p) /\ XResolves(p, ctx)) =>
              XHasValue(j, p.key, XValue(p, XNodes(p, ctx)))

\* a descriptor whose first primary pattern matches while a later primary and
\* a fallback pattern would match too: only the first one was queried
C2_Witness ==
  /\ Resolved
  /\ ~XHasContainer
  /\ Len(XFields) = 1
  /\ Len(XFields[1].patterns) = 2
  /\ XHits(XFields[1].patterns[1], 0) # <<>>
  /\ XHits(XFields[1].patterns[2], 0) # <<>>
  /\ \E i \in 1..Len(XFields[1].meta.alterPattern) :
       XHits(XFields[1].meta.alterPattern[i], 0) # <<>>
  /\ queried = <<[xpath |-> XFields[1].patterns[1], ctx |-> 0]>>

\* the keys of the descriptors that resolve in the j-th scope
XKeys(j) ==
  {XFields[i].key : i \in {k \in 1..Len(XFields) : XResolves(XFields[k], XScopes[j])}}

C4_SingleRecord ==
  (Resolved /\ ~XHasContainer) =>
    IF XKept(1)
    THEN /\ Len(outcome.results) = 1
         /\ DOMAIN outcome.results[1] = XKeys(1)
    ELSE outcome.results = <<>>

\* two descriptors, only one of which resolves: one record with one key
C4_Witness ==
  /\ Resolved
  /\ ~XHasContainer
  /\ Len(XFields) = 2
  /\ XResolves(XFields[1], 0)
  /\ ~XResolves(XFields[2], 0)
  /\ XFields[1].key # XFields[2].key
  /\ Len(outcome.results) = 1
  /\ DOMAIN outcome.results[1] = {XFields[1].key}

XMalformedAt(p, n) == n \in 1..Len(XCands(p)) /\ XCands(p)[n].kind = "bad"

\* C5: a malformed expression among the candidates never makes the call
\* raise; the candidate after it is tried, and the field is absent when every
\* candidate is malformed or matches nothing, in document and container scope.
C5_MalformedAbsorbed ==
  (Settled /\ XFaultFree) =>
    /\ outcome.err = ""
    /\ Len(outcome.results) = XIndex(Len(XScopes))
    /\ \A j \in 1..Len(XScopes) : \A i \in 1..Len(XFields) :
         LET p == XFields[i]
             ctx == XScopes[j]
         IN /\ \A n \in 1..(Len(XCands(p)) - 1) :
                 (XMalformedAt(p, n) /\ \A m \in 1..n : XHits(XCands(p)[m], ctx) = <<>>)
                   => \E q \in 1..Len(queried) :
                        queried[q] = [xpath |-> XCands(p)[n + 1], ctx |-> ctx]
            /\ (XUniqueKey(p) /\ ~XResolves(p, ctx)) =>
                 (XKept(j) => /\ XIndex(j) \in 1..Len(outcome.results)
                              /\ p.key \notin DOMAIN outcome.results[XIndex(j)])

\* a malformed container pattern and, inside each container, a malformed
\* field pattern, both followed by a candidate that matches
C5_Witness ==
  /\ Resolved
  /\ XHasContainer
  /\ XMalformedAt(XContainer, 1)
  /\ Len(XScopes) > 0
  /\ Len(XFields) = 1
  /\ XMalformedAt(XFields[1], 1)
  /\ \A j \in 1..Len(XScopes) : XResolves(XFields[1], XScopes[j])
  /\ Len(outcome.results) = Len(XScopes)

\* a descriptor taking the value of its first node, with pipes, resolved in
\* scope ctx to a non-empty raw string
XSingleCase(p, ctx) ==
  /\ XUniqueKey(p)
  /\ p.meta.multiple = "false"
  /\ p.pipes.defined
  /\ XResolves(p, ctx)
  /\ XRaw(p, XNodes(p, ctx)[1]) # <<>>

XDocumentedPipeline(v, pipes) ==
  XStep6(XStep4(XStep2(XStep1(XStep3(v, pipes), pipes), pipes), pipes))

C7_DocumentedOrder ==
  (Settled /\ XFaultFree) =>
    \A j \in 1..Len(XScopes) : \A i \in 1..Len(XFields) :
      LET p == XFields[i]
          ctx == XScopes[j]
      IN (XSingleCase(p, ctx) /\ p.pipes.custom = <<>>) =>
           XHasValue(j, p.key,
             StrVal(XDocumentedPipeline(XRaw(p, XNodes(p, ctx)[1]), p.pipes)))

\* a multi-value descriptor with a merge mode, resolved in scope ctx
XMergeCase(p, ctx) ==
  /\ XUniqueKey(p)
  /\ p.meta.multiple # "false"
  /\ p.pipes.defined
  /\ p.pipes.merge # "none"
  /\ XResolves(p, ctx)

XRaws(p, ctx) ==
  [n \in 1..Len(XNodes(p, ctx)) |-> XRaw(p, XNodes(p, ctx)[n])]

\* C8: with a merge mode the raw values of all matched nodes are joined in
\* node order (", " for 'with comma', one space otherwise) and the pipeline is
\* applied once to the joined string; the value is one string, not an array.
C8_MergeFirst ==
  (Settled /\ XFaultFree) =>
    \A j \in 1..Len(XScopes) : \A i \in 1..Len(XFields) :
      LET p == XFields[i]
          ctx == XScopes[j]
          joined == Join(XRaws(p, ctx),
                         IF p.pipes.merge = "with comma" THEN <<",", " ">> ELSE <<" ">>)
      IN XMergeCase(p, ctx) =>
           /\ XHasValue(j, p.key, StrVal(XPipeline(joined, p.pipes)))
           /\ outcome.results[XIndex(j)][p.key].kind = "string"

\* four text nodes merged 'with comma': the pipeline sees "5, x, 7, Y z" as
\* one string, so the value differs from the joined per-node values
C8_Witness ==
  /\ Resolved
  /\ ~XHasContainer
  /\ Len(XFields) = 1
  /\ XMergeCase(XFields[1], 0)
  /\ XFields[1].pipes.merge = "with comma"
  /\ Len(XNodes(XFields[1], 0)) = 4
  /\ outcome.results[1][XFields[1].key].s #
       Join([n \in 1..4 |-> XPipeline(XRaws(XFields[1], 0)[n], XFields[1].pipes)],
            <<",", " ">>)

\* C9: Scenario C: a multi-value field over the text nodes "Judul", " " and
\* ": Test", merged with a space, with a regex transform stripping the leading
\* "Judul : ", yields the single string "Test".
C9_ScenarioC ==
  Resolved =>
    \A i \in 1..Len(XFields) :
      LET p == XFields[i]
      IN ( /\ ~XHasContainer
           /\ XMergeCase(p, 0)
           /\ p.pipes = PJudul(p.pipes.merge)
           /\ p.pipes.merge \in {"true", "with space"}
           /\ [n \in 1..Len(XNodes(p, 0)) |-> XDom.nodes[XNodes(p, 0)[n]].text]
                = << <<"J", "u", "d", "u", "l">>, <<" ">>, <<":", " ", "T", "e", "s", "t">> >> )
         => XHasValue(1, p.key, StrVal(<<"T", "e", "s", "t">>))

\* does some exec raise while the transforms run on v
RECURSIVE XSomeExecThrows(_, _)
XSomeExecThrows(instances, v) ==
  IF instances = <<>> THEN FALSE
  ELSE LET r == PipeExec(Head(instances), v)
       IN r.threw \/ XSomeExecThrows(Tail(instances), IF r.threw THEN v ELSE JsString(r))

\* the strings the pipeline of p is run on in scope ctx
XPipelineInputs(p, ctx) ==
  IF p.meta.multiple = "false" THEN {XRaws(p, ctx)[1]}
  ELSE IF p.pipes.merge # "none" THEN {Join(XRaws(p, ctx), XSep(p.pipes.merge))}
  ELSE {XRaws(p, ctx)[n] : n \in 1..Len(XRaws(p, ctx))}

\* a custom transform of p raises in scope ctx
XThrowCase(p, ctx) ==
  /\ p.pipes.defined
  /\ XResolves(p, ctx)
  /\ \E v \in XPipelineInputs(p, ctx) :
       /\ v # <<>>
       /\ XSomeExecThrows(InstantiatePipes(p.pipes.custom, call.url, PIPE_REGISTRY),
            XStep4(XStep3(XStep2(XStep1(v, p.pipes), p.pipes), p.pipes), p.pipes))

XSomeThrowCase ==
  \E j \in 1..Len(XScopes) : \E i \in 1..Len(XFields) : XThrowCase(XFields[i], XScopes[j])

\* C10: when the exec of a custom transform raises the call does not raise;
\* the value before that transform is carried forward through the remaining
\* transforms and the final normalization, and every field of every record
\* has the value it would have anyway.
C10_TransformErrorAbsorbed ==
  (Settled /\ XFaultFree /\ XSomeThrowCase) =>
    /\ outcome.err = ""
    /\ Len(outcome.results) = XIndex(Len(XScopes))
    /\ \A j \in 1..Len(XScopes) : \A i \in 1..Len(XFields) :
         LET p == XFields[i]
             ctx == XScopes[j]
         IN (XUniqueKey(p) /\ XResolves(p, ctx)) =>
              XHasValue(j, p.key, XValue(p, XNodes(p, ctx)))

\* { type: 'regex' } without rules raises on "&nbsp;aB c"; the rule B -> "  "
\* after it and the normalization still run, and the other field is as usual
C10_Witness ==
  /\ Resolved
  /\ call.doc = 1
  /\ call.patterns = <<Field("b", <<Rel("p"), Rel("b")>>, <<>>, "false", PThrow),
                       Field("a", <<Rel("h2")>>, <<Rel("h1")>>, "false", PTrim)>>
  /\ engine = "libxmljs"
  /\ XThrowCase(call.patterns[1], 0)
  /\ outcome.results =
       <<[k \in {"a", "b"} |->
            IF k = "a" THEN StrVal(<<"T", "i", "t", "l", "e">>)
            ELSE StrVal(<<"&", "n", "b", "s", "p", ";", "a", " ", "c">>)]>>

\* ------------------------------------------------------------------------
\* Custom transforms: registry lookup, baseUrl, string conversion
\* ------------------------------------------------------------------------

XIsRegistered(config) == config.type # "" /\ config.type \in DOMAIN PIPE_REGISTRY

\* p with the transform configs of unregistered type taken out of its list
XWithoutUnregistered(p) ==
  [p EXCEPT !.pipes.custom = SelectSeq(p.pipes.custom, XIsRegistered)]

XUnregisteredCase(p) ==
  /\ p.pipes.defined
  /\ \E k \in 1..Len(p.pipes.custom) : ~XIsRegistered(p.pipes.custom[k])

\* C11: a transform config whose type is not in the registry when the
\* pipeline runs is skipped without an error: the value of the field is the
\* one the pipeline gives with that entry removed from the list, the
\* registered transforms of the list still running in order.
C11_UnregisteredSkipped ==
  (Settled /\ XFaultFree) =>
    \A j \in 1..Len(XScopes) : \A i \in 1..Len(XFields) :
      LET p == XFields[i]
          ctx == XScopes[j]
      IN (XUniqueKey(p) /\ XResolves(p, ctx) /\ XUnregisteredCase(p)) =>
           /\ outcome.err = ""
           /\ XHasValue(j, p.key, XValue(XWithoutUnregistered(p), XNodes(p, ctx)))

\* Scenario D: { type: 'reverse' } before ReversePipe is registered, followed
\* by num-normalize and a regex rule 0 -> o, on "1.5K" gives "15oo"
C11_Witness ==
  /\ Resolved
  /\ "reverse" \notin DOMAIN PIPE_REGISTRY
  /\ Docs[call.doc] = DocLinks
  /\ call.patterns = <<Field("b", <<Rel("span")>>, <<>>, "false", PForward)>>
  /\ outcome.results = <<[k \in {"b"} |-> StrVal(<<"1", "5", "o", "o">>)]>>

\* the instances of the registered configs of p: the baseUrl of an instance
\* that has the property is the url of the call when the call has one
XInstance(config) ==
  LET class == PIPE_REGISTRY[config.type]
      exposes == config.hasBaseUrl \/ DeclaresBaseUrl(class)
  IN [class |-> class, hasRules |-> config.hasRules, rules |-> config.rules,
      hasBaseUrl |-> exposes,
      baseUrl |-> IF exposes /\ call.url # <<>> THEN call.url ELSE config.baseUrl]

XInstances(p) ==
  LET regd == SelectSeq(p.pipes.custom, XIsRegistered)
  IN [k \in 1..Len(regd) |-> XInstance(regd[k])]

XExposesCase(p) ==
  /\ p.pipes.defined
  /\ \E k \in 1..Len(XInstances(p)) : XInstances(p)[k].hasBaseUrl

XUrlResolveCase(p) ==
  /\ p.pipes.defined
  /\ Len(p.pipes.custom) = 1
  /\ p.pipes.custom[1].type = "url-resolve"
  /\ p.pipes.custom[1].hasBaseUrl
  /\ p.pipes.replace = <<>>

\* C13: url-resolve configured with baseUrl B resolves a value "/path"
\* against B (protocol and host of B, then the path), whatever the url of
\* the call is.
C13_ExplicitBaseUrl ==
  (Settled /\ XFaultFree) =>
    \A j \in 1..Len(XScopes) : \A i \in 1..Len(XFields) :
      LET p == XFields[i]
          ctx == XScopes[j]
          v == XRaw(p, XNodes(p, ctx)[1])
          base == ParseUrl(p.pipes.custom[1].baseUrl)
      IN (XSingleCase(p, ctx) /\ XUrlResolveCase(p) /\ StartsWith(v, <<"/">>)
            /\ ~StartsWith(v, <<"/", "/">>)) =>
           XHasValue(j, p.key,
             StrVal(XStep6(base.protocol \o <<"/", "/">> \o base.host \o v)))

\* some transform of the run on v returns a value that is not a string
RECURSIVE XSomeNonString(_, _)
XSomeNonString(instances, v) ==
  IF instances = <<>> THEN FALSE
  ELSE LET r == PipeExec(Head(instances), v)
       IN (~r.threw /\ r.type # "string")
            \/ XSomeNonString(Tail(instances), IF r.threw THEN v ELSE JsString(r))

XNonStringCase(p, ctx) ==
  /\ p.pipes.defined
  /\ XResolves(p, ctx)
  /\ \E v \in XPipelineInputs(p, ctx) :
       /\ v # <<>>
       /\ XSomeNonString(XInstances(p),
            XStep4(XStep3(XStep2(XStep1(v, p.pipes), p.pipes), p.pipes), p.pipes))

XIsStringValue(val) ==
  /\ val.kind \in {"string", "array"}
  /\ val.kind = "string" => val.a = <<>>
  /\ val.kind = "array" => val.s = <<>>

Validated == pc = "validated"

\* C15: validateXpath never raises, whatever the document text and the
\* expressions are: it returns its result, and every malformed expression
\* has in it an entry with valid = false and a non-empty error.
C15_ValidateNeverRaises ==
  Validated =>
    /\ validation.err = ""
    /\ \A k \in 1..Len(validation.xpathPatterns) :
         validation.xpathPatterns[k].kind = "bad" =>
           /\ k <= Len(validation.results)
           /\ ~validation.results[k].valid
           /\ validation.results[k].error # ""

\* the nodes an expression matches in the whole validated document
XMatches(xp) ==
  LET dom == LoadHtml(TextOf(validation.html), engine = "jsdom")
  IN SelectFrom(dom.nodes, xp, 0, 1)

\* C16: a validateXpath call that returns gives one entry per expression, in
\* the order of the expressions; entry k depends on expression k and on the
\* document only (valid with its match count, or invalid when malformed,
\* whatever the other expressions are); valid is true exactly when every
\* entry is valid, and is true with no entries when there are no expressions.
C16_ValidationEntries ==
  (Validated /\ validation.err = "") =>
    /\ Len(validation.results) = Len(validation.xpathPatterns)
    /\ \A k \in 1..Len(validation.xpathPatterns) :
         LET xp == validation.xpathPatterns[k]
             e == validation.results[k]
         IN /\ e.xpath = xp
            /\ e.valid <=> xp.kind # "bad"
            /\ e.valid => e.matchCount = Len(XMatches(xp))
            /\ e.valid => (e.hasSample <=> Len(XMatches(xp)) > 0)
    /\ validation.valid <=>
         \A k \in 1..Len(validation.results) : validation.results[k].valid
    /\ validation.xpathPatterns = <<>> =>
         (validation.valid /\ validation.results = <<>>)

\* a malformed expression first, then one that matches: two entries, the
\* second valid with its match
C16_Witness ==
  /\ Validated
  /\ validation.err = ""
  /\ validation.html # 0
  /\ Docs[validation.html] = DocLinks
  /\ validation.xpathPatterns = <<BadXpath, Rel("span")>>
  /\ Len(validation.results) = 2
  /\ ~validation.results[1].valid
  /\ validation.results[2].valid
  /\ validation.results[2].matchCount > 0
  /\ ~validation.valid

\* ------------------------------------------------------------------------
\* Pattern types
\* ------------------------------------------------------------------------

\* C17: a call on a document whose descriptor list has a descriptor of a
\* pattern type other than 'xpath' rejects with the unsupported-pattern-type
\* error, whatever the document and the other descriptors are.
C17_UnsupportedRaises ==
  (pc = "returned" /\ call.doc # 0
     /\ \E i \in 1..Len(call.patterns) : call.patterns[i].patternType # "xpath")
    => outcome.err = UnsupportedPatternType

\* ------------------------------------------------------------------------
\* checkUrlAlive
\* ------------------------------------------------------------------------

\* the settlement of the request for urlArray[i]
XSettlementOf(i) ==
  health.settled[CHOOSE k \in 1..Len(health.settled) : health.settled[k].i = i].settlement

\* C18: checkUrlAlive resolves to one result per url, result i being for
\* urlArray[i] whatever order the requests settled in; alive holds exactly
\* when a response with status 200..399 came; a status of 400 or more gives
\* alive = false with that statusCode; a request error gives alive = false
\* with an error message.
C18_UrlHealth ==
  /\ pc = "checking" => health.pending \cup {health.settled[k].i : k \in 1..Len(health.settled)}
                          = 1..Len(health.urlArray)
  /\ pc = "checked" =>
       /\ Len(health.results) = Len(health.urlArray)
       /\ \A i \in 1..Len(health.urlArray) :
            LET r == health.results[i]
                s == XSettlementOf(i)
            IN /\ r.url = health.urlArray[i]
               /\ r.alive <=> (s.kind = "response" /\ s.status \in 200..399)
               /\ (s.kind = "response" /\ s.status >= 400) =>
                    (~r.alive /\ r.statusCode = s.status)
               /\ s.kind = "error" => (~r.alive /\ r.error # "")

\* two urls, the second request settling first (with an error), the first
\* one with status 200
C18_Witness ==
  /\ pc = "checked"
  /\ health.urlArray = <<PageUrl, ExampleBase>>
  /\ Len(health.settled) = 2
  /\ health.settled[1].i = 2
  /\ health.settled[1].settlement.kind = "error"
  /\ health.settled[2].settlement.status = 200
  /\ health.results[1].alive
  /\ health.results[1].url = PageUrl
  /\ ~health.results[2].alive
  /\ health.results[2].url = ExampleBase

\* ------------------------------------------------------------------------
\* fetchHtml
\* ------------------------------------------------------------------------

XIsSuccess(settlement) ==
  settlement.kind = "response" /\ settlement.status \in 200..299

\* the failures the retry documentation names as retried: a 5xx status, a
\* connection reset or timeout, a DNS failure
XDocumentedRetryable(settlement) ==
  \/ settlement.kind = "response" /\ settlement.status >= 500
  \/ settlement.kind = "error"
       /\ settlement.code \in {"ECONNRESET", "ETIMEDOUT", "ENOTFOUND"}

\* C19: a request is issued again only after a retryable failure (5xx, or
\* a connection-level failure); after a 4xx response, an invalid URL or a
\* certificate error no further request is issued.
C19_RetryOnlyRetryable ==
  (pc = "fetching" /\ fetch.requests > 1) => XDocumentedRetryable(fetch.last)

\* C20: a retrieval issues at most maxRetries + 1 requests; a success ends
\* the retrying and the call goes on with its body; a retrieval whose last
\* failure is a retryable one has made maxRetries + 1 requests and rejects
\* to the caller of evaluateWebsite; every retrieval ends.
C20_BoundedRetries ==
  /\ [](fetch.requests <= maxRetries + 1)
  /\ [](pc = "fetching" => ~XIsSuccess(fetch.last))
  /\ []((pc = "returned" /\ XIsSuccess(fetch.last)) =>
          (call.doc = fetch.last.body /\ outcome.err # "FetchError"))
  /\ []((pc = "returned" /\ fetch.requests > 0 /\ ~XIsSuccess(fetch.last)
           /\ XDocumentedRetryable(fetch.last)) =>
          (fetch.requests = maxRetries + 1 /\ outcome.err = "FetchError"
             /\ call.doc = 0))
  /\ ((pc = "fetching") ~> (pc = "returned"))

\* maxRetries 3, four requests each answered 500: the call rejects
C20_Witness ==
  /\ pc = "returned"
  /\ maxRetries = DefaultMaxRetries
  /\ fetch.requests = DefaultMaxRetries + 1
  /\ fetch.last = HttpResponse(500, 0)
  /\ outcome.err = "FetchError"

\* ------------------------------------------------------------------------
\* Pipeline output, multiple values, containers, case flags, text values
\* ------------------------------------------------------------------------

\* s has no white space at either end and no two white-space characters in
\* a row
XIsNormalized(s) ==
  /\ s # <<>> => (~IsSpace(s[1]) /\ ~IsSpace(s[Len(s)]))
  /\ \A k \in 1..(Len(s) - 1) : ~(IsSpace(s[k]) /\ IsSpace(s[k + 1]))

\* the strings applyPipes returned for the field value val of descriptor p
XPipelineOutputs(p, val) ==
  IF val.kind = "array" THEN {val.a[k] : k \in 1..Len(val.a)}
  ELSE IF p.meta.multiple = "false" \/ p.pipes.merge # "none" THEN {val.s}
  ELSE {}

XEachCase(p, ctx) ==
  /\ XUniqueKey(p)
  /\ p.meta.multiple # "false"
  /\ ~(p.pipes.defined /\ p.pipes.merge # "none")
  /\ XResolves(p, ctx)

\* the pipeline applied to the raw value of each node, in node order
XEach(p, nodes) == [n \in 1..Len(nodes) |-> XPipeline(XRaw(p, nodes[n]), p.pipes)]

\* C25: a multi-value field with no merge mode has the pipeline applied to
\* the raw value of each matched node on its own, in node order; the value
\* is that array joined with ', ' when multiple is 'with comma', joined with
\* one space when multiline is set, and the array itself otherwise.
C25_EachValue ==
  (Settled /\ XFaultFree) =>
    \A j \in 1..Len(XScopes) : \A i \in 1..Len(XFields) :
      LET p == XFields[i]
          ctx == XScopes[j]
          each == XEach(p, XNodes(p, ctx))
      IN XEachCase(p, ctx) =>
           XHasValue(j, p.key,
             IF p.meta.multiple = "with comma" THEN StrVal(Join(each, <<",", " ">>))
             ELSE IF p.meta.multiline THEN StrVal(Join(each, <<" ">>))
             ELSE ArrVal(each))

\* 'with comma' over three text nodes, the second of which has an empty
\* value: the three outputs joined with ', '
C25_Witness ==
  /\ Resolved
  /\ Len(XFields) = 1
  /\ XEachCase(XFields[1], 0)
  /\ XFields[1].meta.multiple = "with comma"
  /\ Len(XNodes(XFields[1], 0)) = 3
  /\ XEach(XFields[1], XNodes(XFields[1], 0))[2] = <<>>
  /\ outcome.results[1][XFields[1].key].kind = "string"
  /\ outcome.results[1][XFields[1].key].s # <<>>

\* the indices of the descriptors marked isContainer
XMarked == {i \in 1..Len(call.patterns) : call.patterns[i].meta.isContainer}

XFirstMarked == call.patterns[CHOOSE i \in XMarked : \A k \in XMarked : i <= k]

\* the nodes the records come from: the nodes of the first marked
\* descriptor in which some field descriptor resolves
XRecordScopes ==
  LET nodes == IF XResolves(XFirstMarked, 0) THEN XNodes(XFirstMarked, 0) ELSE <<>>
  IN SelectSeq(nodes, LAMBDA n : \E i \in 1..Len(XFields) : XResolves(XFields[i], n))

\* C29: with more than one descriptor marked isContainer the first marked
\* one in list order is the container: the document is queried with its
\* patterns only, the records come from its nodes, and no record has a key
\* that only a marked descriptor carries.
C29_FirstContainer ==
  (Resolved /\ Cardinality(XMarked) > 1) =>
    /\ SelectSeq(queried, LAMBDA q : q.ctx = 0) = XTried(XFirstMarked, 0)
    /\ \A q \in {queried[k] : k \in 1..Len(queried)} :
         q.ctx # 0 => \E i \in 1..Len(XFields) : q.xpath \in
                         {XCands(XFields[i])[k] : k \in 1..Len(XCands(XFields[i]))}
    /\ Len(outcome.results) = Len(XRecordScopes)
    /\ \A n \in 1..Len(outcome.results) :
         /\ DOMAIN outcome.results[n] \subseteq {XFields[i].key : i \in 1..Len(XFields)}
         /\ \A i \in 1..Len(XFields) :
              XResolves(XFields[i], XRecordScopes[n]) =>
                outcome.results[n][XFields[i].key] =
                  XValue(XFields[i], XNodes(XFields[i], XRecordScopes[n]))

\* li marked first, b marked second, one field: three records from the li
\* nodes, none with key "c" or "d"
C29_Witness ==
  /\ Resolved
  /\ Docs[call.doc] = DocProducts
  /\ Len(call.patterns) = 3
  /\ XMarked = {1, 2}
  /\ call.patterns[1].patterns = <<Rel("li")>>
  /\ Len(outcome.results) = 3
  /\ \A n \in 1..3 : DOMAIN outcome.results[n] = {"b"}
  /\ \A k \in 1..Len(queried) : queried[k].xpath # Rel("b") \/ queried[k].ctx # 0

XBothCases(p) == p.pipes.defined /\ p.pipes.toLowerCase /\ p.pipes.toUpperCase

\* C30: with toLowerCase and toUpperCase both set the call does not raise;
\* the value is converted to lower case first and to upper case second, so
\* it comes out in upper case.
C30_UpperWins ==
  (Settled /\ XFaultFree) =>
    \A j \in 1..Len(XScopes) : \A i \in 1..Len(XFields) :
      LET p == XFields[i]
          ctx == XScopes[j]
          v == XStep1(XRaw(p, XNodes(p, ctx)[1]), p.pipes)
          w == XStep6(XStep5(XStep4(XStep3(ToUpperCase(ToLowerCase(v)), p.pipes),
                                    p.pipes), p.pipes))
      IN (XSingleCase(p, ctx) /\ XBothCases(p)) =>
           /\ outcome.err = ""
           /\ XHasValue(j, p.key, StrVal(w))
           /\ (p.pipes.replace = <<>> /\ p.pipes.custom = <<>>) =>
                \A k \in 1..Len(w) : ~IsLower(w[k])

\* "aB  c" with both flags gives "AB C"
C30_Witness ==
  /\ Resolved
  /\ engine = "libxmljs"
  /\ Docs[call.doc] = DocTitle
  /\ call.patterns = <<Field("b", <<Rel("p")>>, <<>>, "false",
           Pipes({"toLowerCase", "toUpperCase"}, <<>>, "none", <<>>))>>
  /\ \E k \in 1..Len(XRaw(call.patterns[1], XNodes(call.patterns[1], 0)[1])) :
       IsLower(XRaw(call.patterns[1], XNodes(call.patterns[1], 0)[1])[k])
  /\ \E k \in 1..Len(XRaw(call.patterns[1], XNodes(call.patterns[1], 0)[1])) :
       IsUpper(XRaw(call.patterns[1], XNodes(call.patterns[1], 0)[1])[k])
  /\ outcome.results[1]["b"].s =
       <<"&", "N", "B", "S", "P", ";", "A", "B", " ", "C">>

\* C26: the text value of a matched node is white-space-collapsed under
\* both engines and for element, text and attribute nodes: every run of
\* white space is one space and the ends are trimmed, so both engines give
\* the same text for the same node.
C26_TextCollapsed ==
  (Validated /\ validation.err = "") =>
    \A k \in 1..Len(validation.results) :
      validation.results[k].hasSample =>
        LET node == XMatches(validation.xpathPatterns[k])[1]
        IN validation.results[k].sample =
             Trim(CollapseSpaces(TextOf(validation.html)[node].text))

\* ------------------------------------------------------------------------
\* Idempotence of the final normalization
\* ------------------------------------------------------------------------

\* C27: the final white-space normalization (every run of white space
\* becomes one space, then the ends are trimmed) is idempotent: applying it
\* twice to a string gives what applying it once gives.
C27_Idempotent == norm.times = 2 => norm.out = norm.prev

\* "\na\na" is changed by the first application, to "a a"
C27_Witness ==
  /\ norm.fn = "applyPipes"
  /\ norm.times = 2
  /\ norm.input = <<"\n", "a", "\n", "a">>
  /\ norm.prev = <<"a", " ", "a">>
  /\ norm.out = norm.prev

\* ------------------------------------------------------------------------
\* The error handler of the engine across parse and dispose
\* ------------------------------------------------------------------------

XSuppressing(h) ==
  /\ h \in 1..Len(handles)
  /\ handles[h].built
  /\ ~handles[h].useJSDom
  /\ handles[h].suppressErrors

\* C21: after a document is parsed with error suppression and its handle is
\* then disposed, the error handler of the engine is the one it had right
\* before the parse, whatever that was, "no handler installed" included.
C21_HandlerRestored ==
  (Len(handles) = 1 /\ XSuppressing(1) /\ handles[1].destroys = 1) =>
    errorCatchingHandler = handles[1].before

\* the constructions and disposals of two suppressing handles whose
\* lifetimes overlap, both disposed
XBothDisposed ==
  /\ Len(handles) = 2
  /\ XSuppressing(1)
  /\ XSuppressing(2)
  /\ Len(events) = 4
  /\ events[1].what = "new"
  /\ events[2].what = "new"

XReverseOrder == events[3].handle = 2

\* C28: when two handles made with error suppression have overlapping
\* lifetimes, the error handler of the engine is back to what it was before
\* the first parse, once both are disposed, exactly when they are disposed
\* in reverse order of creation.
C28_ReverseOrderRestores ==
  XBothDisposed =>
    ((errorCatchingHandler = handles[1].before) <=> XReverseOrder)

\* ------------------------------------------------------------------------
\* Calls of the service in progress together
\* ------------------------------------------------------------------------

XCompleted(c) == tasks[c].pc \in {"done", "raised"}

\* C22: every evaluateWebsite call that reached the parse step, whether it
\* returns a record list or raises, has disposed of its handle exactly once
\* when it completes, and the suppression the parse installed is undone.
C22_DisposedOnEveryPath ==
  \A c \in 1..MaxCalls :
    (tasks[c].op = "evaluateWebsite" /\ tasks[c].handle # 0 /\ XCompleted(c)) =>
      /\ handles[tasks[c].handle].destroys = 1
      /\ errorCatchingHandler # tasks[c].handle

XInProgress(c) == tasks[c].pc \in {"fetching", "ready", "parsed", "extracted"}

XHolding(c) == tasks[c].pc \in {"parsed", "extracted"}

====
